---- MODULE Spec2Model ----
(***************************************************************************)
(* Model of the retrieval pipeline of rag-mdn-ai-chatbot:                  *)
(*   scripts/chunk_docs/chunk-mdn.ts   structural chunker                  *)
(*   scripts/generate-embeddings (embedChunks, main)   embedding batcher   *)
(*   scripts/ingest-chunks.ts          vector index writer                 *)
(*   src/app/api/chat/route.ts, scripts/semantic-search.ts   retriever     *)
(*   src/app/api/chat/route.ts (POST), the ask and search CLIs   answers   *)
(*   src/app/page.tsx, src/components/InputBar.tsx   chat page             *)
(*                                                                         *)
(* A character is a one-character string, a line is a sequence of          *)
(* characters and a text is the sequence of its lines (text.split("\n")).  *)
(***************************************************************************)
EXTENDS Integers, Sequences, FiniteSets, TLC

VARIABLES
    \* ---- chunker (chunkMarkdownFile) ----
    file,             \* lines of the file being chunked
    relativePath,     \* its path relative to the input directory
    docs,             \* what splitter.createDocuments returned: chunk texts
    cpc,              \* position in chunkMarkdownFile
    ci,               \* loop index i
    previousEndLine,  \* previousEndLine
    chunks,           \* the chunks array being built
    located,          \* content-relative {startLine, endLine} per chunk
    run,              \* 1 or 2: chunkMarkdownFile is run twice on the file
    firstRunIds       \* chunk ids returned by the first run

chunkVars == <<file, relativePath, docs, cpc, ci, previousEndLine, chunks,
               located, run, firstRunIds>>

VARIABLES
    \* ---- the chunk files on disk (data/processed/chunked) ----
    chunkedDir,       \* sequence of [name, chunks], in readdir order
    \* ---- embedding script (embedChunks, main) ----
    epc,              \* position in main / embedChunks
    eFile,            \* index of the file of the for..of loop
    eI,               \* loop index i of embedChunks
    eResults,         \* results array of embedChunks
    embeddedDir,      \* data/processed/embedded: file name -> chunks written
    eEvents,          \* embedding calls and delays of the run, in order
    eExit,            \* exit status of the embedding process
    totalEmbedded,    \* totalEmbedded
    eFaults,          \* faulty embedding-service responses so far
    \* ---- ingest script (ingestChunks, main) ----
    ipc,              \* position in main / ingestChunks
    iOptions,         \* { useMockEmbeddings, batchSize } and the PRNG seed
    allChunks,        \* allChunks
    iI,               \* loop index i of the batch loop
    stats,            \* stats
    mockCalls,        \* calls of generateMockEmbedding made by this process
    prepared,         \* the rows this process put into its batchData so far
    iExit,            \* exit status of the ingest process
    ingestRun,        \* number of ingest processes started so far
    dbFaults,         \* database errors not caused by the rows themselves
    \* ---- the store (table document_embeddings) ----
    store             \* the rows of the table, in insertion order

pipelineVars == <<chunkedDir, epc, eFile, eI, eResults, embeddedDir, eEvents,
                  eExit, totalEmbedded, eFaults, ipc, iOptions, allChunks,
                  iI, stats, mockCalls, prepared, iExit, ingestRun, dbFaults,
                  store>>

VARIABLES
    \* ---- retriever (searchSimilarChunks of the chat route and the CLI) ----
    spc,              \* "idle", or "answered" once a search has returned
    sQuery,           \* the last search: which searcher, the vector, the limit
    sResults          \* the rows the last search returned, in order

searchVars == <<spc, sQuery, sResults>>

VARIABLES
    \* ---- one question (POST of the chat route, main of the two CLIs) ----
    qpc,              \* position of the handler of the question
    qReq,             \* the request and the environment of its process
    qPending,         \* state of the service call the handler awaits
    qCalls,           \* the service calls the handler made, in order
    qVector,          \* queryEmbedding
    qResults,         \* relevantChunks / searchResults
    qContext,         \* context
    qCitations,       \* citations
    qResponse         \* what the caller received

queryVars == <<qpc, qReq, qPending, qCalls, qVector, qResults, qContext,
               qCitations, qResponse>>

VARIABLES
    \* ---- chunkMdnDocs: the loop over the markdown files ----
    markdownFiles,    \* the files found, each with what the splitter returns
    mdI,              \* number of files the loop has gone through
    chunkStats,       \* stats
    outputDir         \* the files written to outputDir, by name

driverVars == <<markdownFiles, mdI, chunkStats, outputDir>>

VARIABLES
    \* ---- the chat page (Home) ----
    messages,         \* the messages state, persisted in localStorage
    isGenerating,     \* the isGenerating state
    fetches,          \* calls of callStreamingAPI waiting for their response
    idCounter,        \* number of ids generateId has handed out
    chatRequests      \* number of requests the page has started

pageVars == <<messages, isGenerating, fetches, idCounter, chatRequests>>

vars == <<chunkVars, pipelineVars, searchVars, queryVars, driverVars,
          pageVars>>

-----------------------------------------------------------------------------
(* Bounds *)
MaxBodyLines == 3
MaxLeadingBlank == 1
MaxFiles == 2
MaxIngestRuns == 2
MaxDbFaults == 1
MaxEmbedFaults == 1
MaxStoreRows == 3

-----------------------------------------------------------------------------
(* JavaScript string helpers *)

Min(a, b) == IF a < b THEN a ELSE b

MinOf(S) == CHOOSE x \in S : \A y \in S : x <= y

MaxOf(S) == CHOOSE x \in S : \A y \in S : x >= y

IsSpace(c) == c \in {" ", "\n"}

RECURSIVE TrimStart(_)
TrimStart(s) ==
    IF s # <<>> /\ IsSpace(Head(s)) THEN TrimStart(Tail(s)) ELSE s

RECURSIVE TrimEnd(_)
TrimEnd(s) ==
    IF s # <<>> /\ IsSpace(s[Len(s)])
    THEN TrimEnd(SubSeq(s, 1, Len(s) - 1))
    ELSE s

\* String.prototype.trim
Trim(s) == TrimEnd(TrimStart(s))

\* String.prototype.substring(from, to), 0-based, end exclusive
Substring(s, from, to) == SubSeq(s, from + 1, Min(to, Len(s)))

\* String.prototype.includes
Includes(hay, needle) ==
    \E k \in 0..(Len(hay) - Len(needle)) :
        SubSeq(hay, k + 1, k + Len(needle)) = needle

\* lines.join("\n")
RECURSIVE JoinLines(_)
JoinLines(lines) ==
    IF lines = <<>> THEN <<>>
    ELSE IF Len(lines) = 1 THEN lines[1]
    ELSE lines[1] \o <<"\n">> \o JoinLines(Tail(lines))

\* text.trim() on a text held as lines
RECURSIVE DropBlankStart(_)
DropBlankStart(lines) ==
    IF lines # <<>> /\ Trim(Head(lines)) = <<>>
    THEN DropBlankStart(Tail(lines))
    ELSE lines

RECURSIVE DropBlankEnd(_)
DropBlankEnd(lines) ==
    IF lines # <<>> /\ Trim(lines[Len(lines)]) = <<>>
    THEN DropBlankEnd(SubSeq(lines, 1, Len(lines) - 1))
    ELSE lines

TrimText(lines) ==
    LET core == DropBlankEnd(DropBlankStart(lines)) IN
    IF core = <<>> THEN << <<>> >>
    ELSE IF Len(core) = 1 THEN << Trim(core[1]) >>
    ELSE << TrimStart(core[1]) >> \o SubSeq(core, 2, Len(core) - 1)
            \o << TrimEnd(core[Len(core)]) >>

-----------------------------------------------------------------------------
(* chunk-mdn.ts: headings *)

RECURSIVE HashCount(_)
HashCount(s) ==
    IF s # <<>> /\ Head(s) = "#" THEN 1 + HashCount(Tail(s)) ELSE 0

\* line.match(/^(#{1,6})\s+(.+)$/) succeeds
HeadingMatches(line) ==
    LET h == HashCount(line) IN
    /\ h \in 1..6
    /\ Len(line) >= h + 2
    /\ IsSpace(line[h + 1])

\* { level: match[1].length, heading: match[2].trim() }
HeadingOf(line) ==
    [level |-> HashCount(line),
     heading |-> Trim(SubSeq(line, HashCount(line) + 1, Len(line)))]

NoHeading == [level |-> 0, heading |-> <<>>]

RECURSIVE FirstHeading(_)
FirstHeading(lines) ==
    IF lines = <<>> THEN NoHeading
    ELSE IF HeadingMatches(Head(lines)) THEN HeadingOf(Head(lines))
    ELSE FirstHeading(Tail(lines))

extractHeading(text) == FirstHeading(TrimText(text))

\* the loop runs i = startLine - 1 down to 0 over the 0-based array, that is
\* over the 1-based positions startLine down to 1; positions past the end
\* of the array read undefined and are skipped by (!line)
RECURSIVE findHeadingContext(_, _)
findHeadingContext(lines, startLine) ==
    IF startLine <= 0 THEN NoHeading
    ELSE IF /\ startLine <= Len(lines)
            /\ lines[startLine] # <<>>
            /\ HeadingMatches(lines[startLine])
         THEN HeadingOf(lines[startLine])
         ELSE findHeadingContext(lines, startLine - 1)

-----------------------------------------------------------------------------
(* chunk-mdn.ts: line numbers *)

MatchPrefixLength == 50

\* the test of the scanning loop for the 1-based body line idx
LineMatches(originalLines, idx, firstNonEmptyLine) ==
    \/ Trim(originalLines[idx]) = Trim(firstNonEmptyLine)
    \/ Includes(originalLines[idx],
                Substring(Trim(firstNonEmptyLine), 0, MatchPrefixLength))

FirstNonEmptyLine(chunkLines) ==
    LET nonEmpty == {j \in 1..Len(chunkLines) : Len(Trim(chunkLines[j])) > 0}
    IN  IF nonEmpty # {} THEN chunkLines[MinOf(nonEmpty)]
        ELSE Substring(JoinLines(chunkLines), 0, MatchPrefixLength)

\* the loop runs i = previousEndLine .. length - 1 over the 0-based array,
\* that is over the 1-based lines previousEndLine + 1 .. length
calculateLineNumbers(originalLines, chunkLines, prevEnd) ==
    LET first == FirstNonEmptyLine(chunkLines)
        hits == {idx \in (prevEnd + 1)..Len(originalLines) :
                    LineMatches(originalLines, idx, first)}
        startLine == IF hits # {} THEN MinOf(hits) ELSE prevEnd + 1
    IN  [startLine |-> startLine,
         endLine |-> startLine + Len(chunkLines) - 1]

-----------------------------------------------------------------------------
(* chunk-mdn.ts: front matter *)

Delimiter == <<"-", "-", "-">>

calculateFrontmatterOffset(originalContent, contentAfterFrontmatter) ==
    IF originalContent = contentAfterFrontmatter THEN 0
    ELSE LET delims == {j \in 1..Len(originalContent) :
                           Trim(originalContent[j]) = Delimiter}
             second == {j \in delims :
                           Cardinality({d \in delims : d < j}) = 1}
         IN  IF second # {} THEN MinOf(second) ELSE 0

\* gray-matter: the text opens a front-matter block when it starts with the
\* delimiter and the next character is not a delimiter character
HasFrontMatter(text) ==
    /\ Len(text[1]) >= 3
    /\ SubSeq(text[1], 1, 3) = Delimiter
    /\ ~(Len(text[1]) >= 4 /\ text[1][4] = "-")

\* gray-matter: the block closes at the first later line that starts with
\* the delimiter (indexOf("\n---")); 0 when it never closes
MatterCloseLine(text) ==
    LET closes == {j \in 2..Len(text) :
                      Len(text[j]) >= 3 /\ SubSeq(text[j], 1, 3) = Delimiter}
    IN  IF HasFrontMatter(text) /\ closes # {} THEN MinOf(closes) ELSE 0

\* a plain YAML scalar: digits are numbers, anything else a string
YamlScalar(tok) == IF tok = "0" THEN 0 ELSE IF tok = "9" THEN 9 ELSE tok

\* js-yaml on the block: a line <<key, ":", " ", value>> sets data[key];
\* <<key, ":", " ", "|">> opens a block scalar made of the indented lines
\* that follow
ParseYaml(block) ==
    LET keyLines == {j \in 1..Len(block) :
                        Len(block[j]) >= 2 /\ block[j][2] = ":"}
        keys == {block[j][1] : j \in keyLines}
        lineOf(k) == MaxOf({j \in keyLines : block[j][1] = k})
    IN  [k \in keys |->
            IF Len(block[lineOf(k)]) >= 4 /\ block[lineOf(k)][4] # "|"
            THEN YamlScalar(block[lineOf(k)][4])
            ELSE "block-scalar"]

\* matter(content): { data, content }
matter(text) ==
    LET c == MatterCloseLine(text)
        rest == SubSeq(text[c], 4, Len(text[c]))
        after == IF c = Len(text) THEN << <<>> >>
                 ELSE SubSeq(text, c + 1, Len(text))
    IN  IF ~HasFrontMatter(text) THEN [data |-> <<>>, content |-> text]
        ELSE IF c = 0
             THEN [data |-> ParseYaml(Tail(text)), content |-> << <<>> >>]
             ELSE [data |-> ParseYaml(SubSeq(text, 2, c - 1)),
                   content |-> IF rest = <<>> THEN after
                               ELSE IF c = Len(text) THEN <<rest>>
                               ELSE <<rest>> \o after]

\* (rawMarkdownContent.match(/^\n+/) || [''])[0].length
RECURSIVE LeadingBlankLines(_)
LeadingBlankLines(lines) ==
    IF Len(lines) >= 2 /\ Head(lines) = <<>>
    THEN 1 + LeadingBlankLines(Tail(lines))
    ELSE 0

RawMarkdownContent(text) == matter(text).content

\* rawMarkdownContent.replace(/^\n+/, '')
MarkdownContent(text) ==
    LET raw == RawMarkdownContent(text) IN
    SubSeq(raw, LeadingBlankLines(raw) + 1, Len(raw))

FrontmatterOffset(text) ==
    calculateFrontmatterOffset(text, RawMarkdownContent(text))
        + LeadingBlankLines(RawMarkdownContent(text))

-----------------------------------------------------------------------------
(* chunk-mdn.ts: the splitter (RecursiveCharacterTextSplitter) *)

NonBlankLines(body) == {j \in 1..Len(body) : Trim(body[j]) # <<>>}

\* the text of body lines a..b as the splitter returns it: trimmed
ChunkTextOf(body, a, b) == TrimText(SubSeq(body, a, b))

\* The splitter cuts the body at line boundaries and trims every chunk. A
\* chunk is a run of body lines a..b that starts and ends on a non-blank
\* line; the next chunk starts after the start of this one and no later
\* than the first non-blank line after its end (it starts at or before the
\* end when the chunks overlap), and it ends after the end of this one.
RECURSIVE SplitsAfter(_, _, _)
SplitsAfter(body, pa, pb) ==
    LET nb == NonBlankLines(body) IN
    IF pb = MaxOf(nb) THEN {<<>>}
    ELSE LET nxt == MinOf({j \in nb : j > pb}) IN
         UNION { UNION { { <<ChunkTextOf(body, a, b)>> \o rest :
                            rest \in SplitsAfter(body, a, b) } :
                         b \in {j \in nb : j > pb /\ j >= a} } :
                 a \in {j \in nb : j > pa /\ j <= nxt} }

\* every value splitter.createDocuments([body]) can return, over the chunk
\* sizes and overlaps of the configuration
SplitterOutputs(body) ==
    IF NonBlankLines(body) = {} THEN {<<>>}
    ELSE SplitsAfter(body, 0, 0)

-----------------------------------------------------------------------------
(* chunk-mdn.ts: chunk ids and counts *)

\* relativePath.replace(/\//g, "_")
RECURSIVE ReplaceSlashes(_)
ReplaceSlashes(path) ==
    IF path = <<>> THEN <<>>
    ELSE <<IF Head(path) = "/" THEN "_" ELSE Head(path)>>
            \o ReplaceSlashes(Tail(path))

\* a replace whose pattern never matches
KeepMdSuffix(s, with) == s

\* s.replace(/\.md$/, with)
ReplaceMdSuffix(s, with) ==
    IF Len(s) >= 3 /\ SubSeq(s, Len(s) - 2, Len(s)) = <<".", "m", "d">>
    THEN SubSeq(s, 1, Len(s) - 3) \o with
    ELSE s

DigitChars == <<"0", "1", "2", "3", "4", "5", "6", "7", "8", "9">>

\* `${n}` for a non-negative integer
RECURSIVE Decimal(_)
Decimal(n) ==
    IF n < 10 THEN <<DigitChars[n + 1]>>
    ELSE Decimal(n \div 10) \o <<DigitChars[(n % 10) + 1]>>

ChunkId(path, i) ==
    ReplaceMdSuffix(ReplaceSlashes(path), <<>>)
        \o <<"_", "c", "h", "u", "n", "k", "_">> \o Decimal(i)

\* chunkText.length
CharacterCount(chunkLines) == Len(JoinLines(chunkLines))

\* chunkText.trim().split(/\s+/).length
WordCount(chunkLines) ==
    LET t == JoinLines(TrimText(chunkLines))
        starts == {k \in 1..Len(t) :
                      ~IsSpace(t[k]) /\ (k = 1 \/ IsSpace(t[k - 1]))}
    IN  IF starts = {} THEN 1 ELSE Cardinality(starts)

Undefined == "undefined"

FieldOr(data, key) == IF key \in DOMAIN data THEN data[key] ELSE Undefined

\* the object literal of the metadata: the computed fields, then the spread
\* of the front matter, whose keys win over the fields written before it
ChunkMetadata(path, i, startLine, endLine, heading, level, frontmatter) ==
    LET base == [source |-> path,
                 chunkIndex |-> i,
                 startLine |-> startLine,
                 endLine |-> endLine,
                 heading |-> heading,
                 headingLevel |-> level,
                 title |-> FieldOr(frontmatter, "title"),
                 slug |-> FieldOr(frontmatter, "slug"),
                 pageType |-> FieldOr(frontmatter, "page-type"),
                 sidebar |-> FieldOr(frontmatter, "sidebar")]
    IN  [k \in DOMAIN base \cup DOMAIN frontmatter |->
            IF k \in DOMAIN frontmatter THEN frontmatter[k] ELSE base[k]]

\* one iteration of the loop over docs
BuildChunk(text, path, i, chunkText, prevEnd) ==
    LET body == MarkdownContent(text)
        loc == calculateLineNumbers(body, chunkText, prevEnd)
        offset == FrontmatterOffset(text)
        headingContext == findHeadingContext(body, loc.startLine - 1)
        chunkHeading == extractHeading(chunkText)
        finalHeading ==
            IF headingContext.heading # <<>> THEN headingContext.heading
            ELSE IF chunkHeading.heading # <<>> THEN chunkHeading.heading
            ELSE <<"I", "n", "t", "r", "o", "d", "u", "c", "t", "i", "o", "n">>
        finalLevel ==
            IF headingContext.level # 0 THEN headingContext.level
            ELSE IF chunkHeading.level # 0 THEN chunkHeading.level
            ELSE 1
    IN  [id |-> ChunkId(path, i),
         text |-> chunkText,
         characterCount |-> CharacterCount(chunkText),
         wordCount |-> WordCount(chunkText),
         metadata |-> ChunkMetadata(path, i,
                                    loc.startLine + offset,
                                    loc.endLine + offset,
                                    finalHeading, finalLevel,
                                    matter(text).data)]

-----------------------------------------------------------------------------
(* The files the chunker is run on *)

Blank == <<>>
H1A == <<"#", " ", "A">>
H2B == <<"#", "#", " ", "B">>
TextX == <<"x">>
TextXY == <<"x", "y">>

BodyAlphabet == {Blank, H1A, H2B, TextX, TextXY}

\* front-matter lines, as YAML tokens
FmTitle == <<"title", ":", " ", "T">>
FmEndLine == <<"endLine", ":", " ", "0">>
FmNote == <<"note", ":", " ", "|">>
FmIndentedRule == <<" ", " ", "-", "-", "-">>

FrontMatterBlocks ==
    { <<>>,
      <<Delimiter, FmTitle, Delimiter>>,
      <<Delimiter, FmTitle, FmEndLine, Delimiter>>,
      <<Delimiter, FmNote, FmIndentedRule, Delimiter>> }

\* a body is what follows the front matter and the leading blank lines: it
\* starts on a non-blank line unless it is empty
Bodies ==
    { << Blank >> } \cup
    UNION { { b \in [1..n -> BodyAlphabet] : b[1] # Blank } :
            n \in 1..MaxBodyLines }

BlankRuns == { [j \in 1..n |-> Blank] : n \in 0..MaxLeadingBlank }

\* files without front matter, and files with front matter and a body one
\* line shorter
Files ==
    { bl \o b : bl \in BlankRuns, b \in Bodies } \cup
    { fm \o bl \o b : fm \in FrontMatterBlocks \ {<<>>}, bl \in BlankRuns,
                       b \in {x \in Bodies : Len(x) < MaxBodyLines} }

RelativePaths ==
    { <<"a", ".", "m", "d">>,
      <<"d", "/", "e", "/", "a", ".", "m", "d">> }

-----------------------------------------------------------------------------
(* chunkMarkdownFile as a process *)

IdsOf(cs) == [k \in 1..Len(cs) |-> cs[k].id]

ChunkerReady ==
    /\ file \in Files
    /\ relativePath \in RelativePaths
    /\ docs \in SplitterOutputs(MarkdownContent(file))
    /\ cpc = "idle"
    /\ ci = 0
    /\ previousEndLine = 0
    /\ chunks = <<>>
    /\ located = <<>>
    /\ run = 1
    /\ firstRunIds = <<>>

\* read the file, parse the front matter, split the body
ChunkBegin ==
    /\ cpc = "idle"
    /\ cpc' = "loop"
    /\ ci' = 0
    /\ previousEndLine' = 0
    /\ chunks' = <<>>
    /\ located' = <<>>
    /\ UNCHANGED <<file, relativePath, docs, run, firstRunIds>>
    /\ UNCHANGED <<pipelineVars, searchVars, queryVars, driverVars,
                   pageVars>>

\* one iteration of for (let i = 0; i < docs.length; i++)
ChunkStep ==
    /\ cpc = "loop"
    /\ ci < Len(docs)
    /\ LET loc == calculateLineNumbers(MarkdownContent(file), docs[ci + 1],
                                       previousEndLine)
       IN  /\ chunks' = Append(chunks,
                               BuildChunk(file, relativePath, ci,
                                          docs[ci + 1], previousEndLine))
           /\ located' = Append(located, loc)
           /\ previousEndLine' = loc.endLine
    /\ ci' = ci + 1
    /\ UNCHANGED <<file, relativePath, docs, cpc, run, firstRunIds>>
    /\ UNCHANGED <<pipelineVars, searchVars, queryVars, driverVars,
                   pageVars>>

\* return chunks
ChunkReturn ==
    /\ cpc = "loop"
    /\ ci = Len(docs)
    /\ cpc' = "returned"
    /\ UNCHANGED <<file, relativePath, docs, ci, previousEndLine, chunks,
                   located, run, firstRunIds>>
    /\ UNCHANGED <<pipelineVars, searchVars, queryVars, driverVars,
                   pageVars>>

\* the chunker is run again on the same file with the same configuration
ChunkAgain ==
    /\ cpc = "returned"
    /\ run = 1
    /\ run' = 2
    /\ firstRunIds' = IdsOf(chunks)
    /\ cpc' = "idle"
    /\ UNCHANGED <<file, relativePath, docs, ci, previousEndLine, chunks,
                   located>>
    /\ UNCHANGED <<pipelineVars, searchVars, queryVars, driverVars,
                   pageVars>>

NextChunker ==
    \/ ChunkBegin
    \/ ChunkStep
    \/ ChunkReturn
    \/ ChunkAgain

-----------------------------------------------------------------------------
(* Claims about the chunker *)

Body == MarkdownContent(file)

\* the file line of body line j
FileLineOf(j) == j + (Len(file) - Len(Body))

\* the front matter sets none of the fields the chunker computes
NoComputedKeyInFrontMatter ==
    DOMAIN matter(file).data \cap
        {"source", "chunkIndex", "startLine", "endLine", "heading",
         "headingLevel"} = {}

\* C3: in chunkIndex order the startLine values of a document's chunks are
\* non-decreasing, and every chunk has startLine <= endLine
C3_LineMonotonicity ==
    \A k \in 1..Len(chunks) :
        /\ chunks[k].metadata.startLine <= chunks[k].metadata.endLine
        /\ k > 1 => chunks[k - 1].metadata.startLine
                        <= chunks[k].metadata.startLine

\* the lines of the body, up to its last non-blank line
BodyLineNumbers ==
    {j \in 1..Len(Body) : \E n \in NonBlankLines(Body) : j <= n}

\* C4: once the file is chunked, every line of the body lies inside the
\* [startLine, endLine] range of at least one chunk (stated for the files
\* without front matter, where file lines and body lines differ only by the
\* trimmed blank lines)
C4_Coverage ==
    (cpc = "returned" /\ ~HasFrontMatter(file) /\ Len(chunks) > 0) =>
        \A j \in BodyLineNumbers :
            \E k \in 1..Len(chunks) :
                /\ chunks[k].metadata.startLine <= FileLineOf(j)
                /\ FileLineOf(j) <= chunks[k].metadata.endLine

\* the nearest heading line at or before body line n, scanning backward
RECURSIVE NearestHeadingAtOrBefore(_)
NearestHeadingAtOrBefore(n) ==
    IF n <= 0 THEN NoHeading
    ELSE IF n <= Len(Body) /\ HeadingMatches(Body[n]) THEN HeadingOf(Body[n])
    ELSE NearestHeadingAtOrBefore(n - 1)

EnclosingHeading(k) ==
    LET back == NearestHeadingAtOrBefore(located[k].startLine)
        own == extractHeading(chunks[k].text)
    IN  IF back.level # 0 THEN back
        ELSE IF own.level # 0 THEN own
        ELSE [level |-> 1,
              heading |-> <<"I", "n", "t", "r", "o", "d", "u", "c", "t",
                            "i", "o", "n">>]

\* C5: every chunk is labelled with the closest heading line found scanning
\* backward through the body from the chunk's start line, that line
\* included; the chunk's own text and then the defaults are used only when
\* there is none
C5_NearestHeading ==
    \A k \in 1..Len(chunks) :
        /\ chunks[k].metadata.heading = EnclosingHeading(k).heading
        /\ chunks[k].metadata.headingLevel = EnclosingHeading(k).level

\* C6: a chunk located at body lines [s, e] is reported at s + c + b and
\* e + c + b, c the file line of the closing front-matter marker (0 without
\* front matter) and b the number of trimmed blank lines (stated for the
\* files whose front matter leaves the computed fields alone)
C6_FileAbsoluteLines ==
    NoComputedKeyInFrontMatter =>
        \A k \in 1..Len(chunks) :
            LET c == MatterCloseLine(file)
                b == LeadingBlankLines(RawMarkdownContent(file))
            IN  /\ chunks[k].metadata.startLine = located[k].startLine + c + b
                /\ chunks[k].metadata.endLine = located[k].endLine + c + b

\* C7: for every chunk after the first, the body line at the reported start
\* line matches the chunk's first non-empty line, and no line between the
\* previous chunk's end and it does
C7_StartLineMatches ==
    \A k \in 2..Len(located) :
        LET first == FirstNonEmptyLine(chunks[k].text)
            s == located[k].startLine
        IN  /\ s \in 1..Len(Body)
            /\ LineMatches(Body, s, first)
            /\ \A j \in (located[k - 1].endLine + 1)..(s - 1) :
                   j <= Len(Body) => ~LineMatches(Body, j, first)

\* the id the claim describes: the path without its ".md", every "/" turned
\* into "_", then "_chunk_" and the index
DescribedId(path, i) ==
    [j \in 1..(Len(path) - 3) |-> IF path[j] = "/" THEN "_" ELSE path[j]]
        \o <<"_", "c", "h", "u", "n", "k", "_">> \o Decimal(i)

\* C8: chunking the same file twice gives the same sequence of chunk ids,
\* and the id of chunk i is the slug of the path, "_chunk_" and i
C8_IdempotentIds ==
    /\ \A k \in 1..Len(chunks) :
           chunks[k].id = DescribedId(relativePath, k - 1)
    /\ (run = 2 /\ cpc = "returned") => IdsOf(chunks) = firstRunIds

C8_Witness ==
    /\ run = 2
    /\ cpc = "returned"
    /\ Len(chunks) >= 2
    /\ Cardinality({j \in 1..Len(relativePath) : relativePath[j] = "/"}) >= 2

-----------------------------------------------------------------------------
(* The chunk files the chunker leaves in data/processed/chunked *)

Introduction == <<"I", "n", "t", "r", "o", "d", "u", "c", "t", "i", "o", "n">>

SourcePaths == << <<"a", ".", "m", "d">>, <<"b", ".", "m", "d">>,
                  <<"c", ".", "m", "d">> >>

\* relativePath.replace(/\//g, "_").replace(/\.md$/, ".json")
OutputFileName(path) ==
    ReplaceMdSuffix(ReplaceSlashes(path), <<".", "j", "s", "o", "n">>)

\* chunk k (0-based) of source file f, as chunkMarkdownFile builds it
ChunkOnDisk(f, k) ==
    LET text == << <<"t">> \o Decimal(f) \o <<".">> \o Decimal(k) >> IN
    [id |-> ChunkId(SourcePaths[f], k),
     text |-> text,
     characterCount |-> CharacterCount(text),
     wordCount |-> WordCount(text),
     metadata |-> ChunkMetadata(SourcePaths[f], k, k + 1, k + 1,
                                Introduction, 1, <<>>)]

ChunkFileOf(f, n) ==
    [name |-> OutputFileName(SourcePaths[f]),
     chunks |-> [k \in 1..n |-> ChunkOnDisk(f, k - 1)]]

-----------------------------------------------------------------------------
(* The embedding script: embedChunks and main *)

EMBED_BATCH_SIZE == 50
RATE_LIMIT_DELAY_MS == 100

FileSizes == {0, 2, EMBED_BATCH_SIZE, EMBED_BATCH_SIZE + 1}

ChunkedDirs ==
    UNION { { [f \in 1..m |-> ChunkFileOf(f, sizes[f])] :
              sizes \in [1..m -> FileSizes] } : m \in 0..MaxFiles }

\* a null in the embedding column, and an embedding that is undefined
NullVector == [model |-> "null"]
UndefinedVector == [model |-> "undefined"]

\* the vector the embedding service computes for a text in a mode
Voyage(text, inputType) ==
    [model |-> "voyage-code-3", inputType |-> inputType, of |-> text]

\* chunks.slice(i, i + size)
Slice(seq, i, size) == SubSeq(seq, i + 1, Min(i + size, Len(seq)))

\* the embeddings a call returns for the texts: all of them, or one short
EmbedResponse(texts, outcome) ==
    LET all == [j \in 1..Len(texts) |-> Voyage(texts[j], "document")] IN
    IF outcome = "short" THEN SubSeq(all, 1, Len(all) - 1) ELSE all

\* a loop that gives every chunk of the batch the first vector
WithFirstEmbedding(batch, embeddings) ==
    [j \in 1..Len(batch) |->
        [id |-> batch[j].id,
         text |-> batch[j].text,
         characterCount |-> batch[j].characterCount,
         wordCount |-> batch[j].wordCount,
         metadata |-> batch[j].metadata,
         embedding |-> IF 1 <= Len(embeddings) THEN embeddings[1]
                       ELSE UndefinedVector]]

\* results.push({ ...batch[j], embedding: embeddings[j] }) for the batch
WithEmbeddings(batch, embeddings) ==
    [j \in 1..Len(batch) |->
        [id |-> batch[j].id,
         text |-> batch[j].text,
         characterCount |-> batch[j].characterCount,
         wordCount |-> batch[j].wordCount,
         metadata |-> batch[j].metadata,
         embedding |-> IF j <= Len(embeddings) THEN embeddings[j]
                       ELSE UndefinedVector]]

\* an error handler that logs and goes on with the next file
EmbedErrorSkipFile == [epc |-> "nextFile", eExit |-> "none"]

\* catch (err) { throw err } in main, then main().catch: process.exit(1)
EmbedErrorExit == [epc |-> "failed", eExit |-> 1]

EmbedIdle ==
    /\ epc = "idle"
    /\ eFile = 0
    /\ eI = 0
    /\ eResults = <<>>
    /\ embeddedDir = <<>>
    /\ eEvents = <<>>
    /\ eExit = "none"
    /\ totalEmbedded = 0
    /\ eFaults = 0

ingestVars == <<ipc, iOptions, allChunks, iI, stats, mockCalls, prepared,
                iExit, ingestRun, dbFaults, store>>

\* main up to the for..of loop
EmbedStart ==
    /\ epc = "idle"
    /\ ingestRun = 0
    /\ IF Len(chunkedDir) = 0
       THEN /\ epc' = "failed"
            /\ eExit' = 1
            /\ UNCHANGED eFile
       ELSE /\ epc' = "nextFile"
            /\ eExit' = "running"
            /\ eFile' = 1
    /\ UNCHANGED <<eI, eResults, embeddedDir, eEvents, totalEmbedded,
                   eFaults, chunkedDir>>
    /\ UNCHANGED ingestVars
    /\ UNCHANGED <<chunkVars, searchVars, queryVars, driverVars,
                   pageVars>>

\* for (const file of jsonFiles): read the file, skip it when it has no
\* chunks, else enter embedChunks; after the last file main returns
EmbedNextFile ==
    /\ epc = "nextFile"
    /\ IF eFile > Len(chunkedDir)
       THEN /\ epc' = "done"
            /\ eExit' = 0
            /\ UNCHANGED <<eFile, eI, eResults>>
       ELSE IF Len(chunkedDir[eFile].chunks) = 0
            THEN /\ eFile' = eFile + 1
                 /\ UNCHANGED <<epc, eExit, eI, eResults>>
            ELSE /\ epc' = "embedding"
                 /\ eI' = 0
                 /\ eResults' = <<>>
                 /\ UNCHANGED <<eFile, eExit>>
    /\ UNCHANGED <<embeddedDir, eEvents, totalEmbedded, eFaults, chunkedDir>>
    /\ UNCHANGED ingestVars
    /\ UNCHANGED <<chunkVars, searchVars, queryVars, driverVars,
                   pageVars>>

\* one iteration of the batch loop of embedChunks, up to the delay: the
\* embedMany call returns the vectors, returns one vector short, or throws
EmbedCall ==
    /\ epc = "embedding"
    /\ eI < Len(chunkedDir[eFile].chunks)
    /\ \E outcome \in {"ok", "short", "throw"} :
        LET all == chunkedDir[eFile].chunks
            batch == Slice(all, eI, EMBED_BATCH_SIZE)
            texts == [j \in 1..Len(batch) |-> batch[j].text]
            call == [type |-> "call",
                     file |-> chunkedDir[eFile].name,
                     from |-> eI,
                     count |-> Len(texts),
                     inputType |-> "document",
                     outcome |-> outcome]
        IN  /\ outcome # "ok" => eFaults < MaxEmbedFaults
            /\ eFaults' = IF outcome = "ok" THEN eFaults ELSE eFaults + 1
            /\ eEvents' = Append(eEvents, call)
            /\ IF outcome = "throw"
               THEN /\ epc' = EmbedErrorExit.epc
                    /\ eExit' = EmbedErrorExit.eExit
                    /\ UNCHANGED <<eI, eResults>>
               ELSE /\ eResults' = eResults \o
                         WithEmbeddings(batch, EmbedResponse(texts, outcome))
                    /\ eI' = eI + EMBED_BATCH_SIZE
                    /\ epc' = IF eI + EMBED_BATCH_SIZE < Len(all)
                              THEN "delay" ELSE "embedded"
                    /\ UNCHANGED eExit
    /\ UNCHANGED <<eFile, embeddedDir, totalEmbedded, chunkedDir>>
    /\ UNCHANGED ingestVars
    /\ UNCHANGED <<chunkVars, searchVars, queryVars, driverVars,
                   pageVars>>

\* await new Promise((r) => setTimeout(r, RATE_LIMIT_DELAY_MS))
EmbedDelay ==
    /\ epc = "delay"
    /\ eEvents' = Append(eEvents, [type |-> "delay",
                                   ms |-> RATE_LIMIT_DELAY_MS])
    /\ epc' = "embedding"
    /\ UNCHANGED <<eFile, eI, eResults, embeddedDir, eExit, totalEmbedded,
                   eFaults, chunkedDir>>
    /\ UNCHANGED ingestVars
    /\ UNCHANGED <<chunkVars, searchVars, queryVars, driverVars,
                   pageVars>>

\* embedChunks returned: write the output file of the file
EmbedWrite ==
    /\ epc = "embedded"
    /\ embeddedDir' =
           [n \in DOMAIN embeddedDir \cup {chunkedDir[eFile].name} |->
               IF n = chunkedDir[eFile].name THEN eResults
               ELSE embeddedDir[n]]
    /\ totalEmbedded' = totalEmbedded + Len(eResults)
    /\ eFile' = eFile + 1
    /\ epc' = "nextFile"
    /\ UNCHANGED <<eI, eResults, eEvents, eExit, eFaults, chunkedDir>>
    /\ UNCHANGED ingestVars
    /\ UNCHANGED <<chunkVars, searchVars, queryVars, driverVars,
                   pageVars>>

-----------------------------------------------------------------------------
(* The ingest script: ingestChunks and main *)

Null == "null"

\* Math.random is a generator seeded per process, and the model seeds a
\* process with the number of its run: the vector of the n-th call of
\* generateMockEmbedding in the process
generateMockEmbedding(seed, n) == [model |-> "mock", seed |-> seed, call |-> n]

\* value || null, for a string or undefined
OrNull(v) == IF v \in {Undefined, Null, ""} THEN Null ELSE v

\* the element of batchData built from the chunk; n numbers the calls of
\* generateMockEmbedding
BatchRow(chunk, useMockEmbeddings, seed, n) ==
    [id |-> chunk.id,
     text |-> chunk.text,
     characterCount |-> chunk.characterCount,
     wordCount |-> chunk.wordCount,
     embedding |-> IF useMockEmbeddings THEN generateMockEmbedding(seed, n)
                   ELSE NullVector,
     metadata |-> chunk.metadata,
     source |-> chunk.metadata.source,
     chunkIndex |-> chunk.metadata.chunkIndex,
     startLine |-> chunk.metadata.startLine,
     endLine |-> chunk.metadata.endLine,
     heading |-> IF chunk.metadata.heading = <<>> THEN Null
                 ELSE chunk.metadata.heading,
     headingLevel |-> IF chunk.metadata.headingLevel = 0 THEN Null
                      ELSE chunk.metadata.headingLevel,
     title |-> OrNull(chunk.metadata.title),
     slug |-> OrNull(chunk.metadata.slug),
     pageType |-> OrNull(chunk.metadata.pageType),
     sidebar |-> OrNull(chunk.metadata.sidebar)]

\* allChunks.push(...fileContent.chunks) over the files
RECURSIVE CollectChunks(_)
CollectChunks(dir) ==
    IF dir = <<>> THEN <<>>
    ELSE Head(dir).chunks \o CollectChunks(Tail(dir))

\* the statement db.insert(documentEmbeddings).values(rows) violates the
\* primary key on id: a row of the statement has the id of a stored row or
\* of another row of the statement
PrimaryKeyConflict(table, rows) ==
    LET stored == {table[k].id : k \in 1..Len(table)}
        new == {rows[j].id : j \in 1..Len(rows)}
    IN  \/ stored \cap new # {}
        \/ Cardinality(new) # Len(rows)

\* the table after the statement succeeded; created_at defaults to now()
InsertRows(table, rows, now) ==
    table \o [j \in 1..Len(rows) |->
                 [id |-> rows[j].id, row |-> rows[j], createdAt |-> now]]

NoPrepared == <<>>

\* a catch that leaves the loop at the first failed batch
IngestErrorStop == [ipc |-> "done", iExit |-> 0]

\* catch (error) { stats.errors.push(errorMsg) }: the loop goes on
IngestErrorContinue == [ipc |-> "loop", iExit |-> "running"]

IngestParked ==
    /\ ipc = "idle"
    /\ iOptions = [useMockEmbeddings |-> TRUE, batchSize |-> 100, seed |-> 1]
    /\ allChunks = <<>>
    /\ iI = 0
    /\ stats = [totalFiles |-> 0, totalChunks |-> 0, insertedChunks |-> 0,
                errors |-> <<>>]
    /\ mockCalls = 0
    /\ prepared = NoPrepared
    /\ iExit = "none"
    /\ ingestRun = 0
    /\ dbFaults = 0

IngestIdle ==
    /\ IngestParked
    /\ store = <<>>

BatchSizes == {30, 100}

embedVars == <<epc, eFile, eI, eResults, embeddedDir, eEvents, eExit,
               totalEmbedded, eFaults>>

\* a JavaScript number is an integer of the model or NaN; a value is told
\* from NaN by its printed form
NaN == "NaN"

IsNaN(x) == ToString(x) = ToString(NaN)

\* a + b, a < b and Math.floor(a / b) + 1 of numbers
JsAdd(a, b) == IF IsNaN(a) \/ IsNaN(b) THEN NaN ELSE a + b

JsLess(a, b) == ~IsNaN(a) /\ ~IsNaN(b) /\ a < b

JsBatchNum(i, size) == IF IsNaN(size) THEN NaN ELSE (i \div size) + 1

\* seq.slice(i, end): an end of NaN is 0
JsSlice(seq, i, end) ==
    IF IsNaN(end) THEN <<>> ELSE SubSeq(seq, i + 1, Min(end, Len(seq)))

\* process.argv.slice(2) of the ingest script
ArgLists ==
    {<<>>, <<"--real">>, <<"-r">>, <<"--batch", "30">>, <<"-b", "30">>,
     <<"--real", "--batch", "30">>, <<"--batch", "30", "--real">>}

\* args.indexOf(token), and args[k], 0-based
IndexOf(args, token) ==
    IF \E k \in 1..Len(args) : args[k] = token
    THEN MinOf({k \in 1..Len(args) : args[k] = token}) - 1
    ELSE 0 - 1

ArgAt(args, k) == IF k + 1 \in 1..Len(args) THEN args[k + 1] ELSE Undefined

\* parseInt of an argument: the number of a numeral, NaN for a flag
ParseInt(token) ==
    IF token = "30" THEN 30 ELSE IF token = "100" THEN 100 ELSE NaN

\* parseInt(args[args.indexOf("--batch") + 1] ||
\*          args[args.indexOf("-b") + 1] || "100")
ParseBatchSize(args) ==
    LET long == ArgAt(args, IndexOf(args, "--batch") + 1)
        short == ArgAt(args, IndexOf(args, "-b") + 1)
    IN  ParseInt(IF long # Undefined THEN long
                 ELSE IF short # Undefined THEN short
                 ELSE "100")

\* !args.includes("--real") && !args.includes("-r")
UseMockEmbeddings(args) ==
    IndexOf(args, "--real") = 0 - 1 /\ IndexOf(args, "-r") = 0 - 1

\* main of the ingest script, started with arguments, and ingestChunks up
\* to the batch loop; the API key that main asks for with --real is set
IngestMain ==
    /\ ipc \in {"idle", "done"}
    /\ epc \in {"idle", "done", "failed"}
    /\ ingestRun < MaxIngestRuns
    /\ ingestRun' = ingestRun + 1
    /\ mockCalls' = 0
    /\ prepared' = NoPrepared
    /\ iI' = 0
    /\ \E args \in ArgLists :
           /\ iOptions' = [useMockEmbeddings |-> UseMockEmbeddings(args),
                           batchSize |-> ParseBatchSize(args),
                           seed |-> ingestRun + 1,
                           args |-> args]
           /\ IF Len(chunkedDir) = 0
              THEN /\ ipc' = "done"
                   /\ iExit' = 1
                   /\ allChunks' = <<>>
                   /\ stats' = [totalFiles |-> 0, totalChunks |-> 0,
                                insertedChunks |-> 0, errors |-> <<>>]
              ELSE /\ ipc' = "loop"
                   /\ iExit' = "running"
                   /\ allChunks' = CollectChunks(chunkedDir)
                   /\ stats' = [totalFiles |-> Len(chunkedDir),
                                totalChunks |-> Len(CollectChunks(chunkedDir)),
                                insertedChunks |-> 0,
                                errors |-> <<>>]
    /\ UNCHANGED <<dbFaults, store, chunkedDir>>
    /\ UNCHANGED embedVars
    /\ UNCHANGED <<chunkVars, searchVars, queryVars, driverVars,
                   pageVars>>

\* ingestChunks called with a batch size, up to the batch loop: a new
\* process is started
IngestStart ==
    /\ ipc \in {"idle", "done"}
    /\ epc \in {"idle", "done", "failed"}
    /\ ingestRun < MaxIngestRuns
    /\ ingestRun' = ingestRun + 1
    /\ \E useMock \in BOOLEAN, size \in BatchSizes :
           iOptions' = [useMockEmbeddings |-> useMock, batchSize |-> size,
                        seed |-> ingestRun + 1]
    /\ mockCalls' = 0
    /\ prepared' = NoPrepared
    /\ iI' = 0
    /\ IF Len(chunkedDir) = 0
       THEN /\ ipc' = "done"
            /\ iExit' = 1
            /\ allChunks' = <<>>
            /\ stats' = [totalFiles |-> 0, totalChunks |-> 0,
                         insertedChunks |-> 0, errors |-> <<>>]
       ELSE /\ ipc' = "loop"
            /\ iExit' = "running"
            /\ allChunks' = CollectChunks(chunkedDir)
            /\ stats' = [totalFiles |-> Len(chunkedDir),
                         totalChunks |-> Len(CollectChunks(chunkedDir)),
                         insertedChunks |-> 0,
                         errors |-> <<>>]
    /\ UNCHANGED <<dbFaults, store, chunkedDir>>
    /\ UNCHANGED embedVars
    /\ UNCHANGED <<chunkVars, searchVars, queryVars, driverVars,
                   pageVars>>

\* one iteration of the batch loop: build batchData, insert it, count it or
\* record the error
IngestBatch ==
    /\ ipc = "loop"
    /\ JsLess(iI, Len(allChunks))
    /\ LET batch == JsSlice(allChunks, iI, JsAdd(iI, iOptions.batchSize))
           batchNum == JsBatchNum(iI, iOptions.batchSize)
           batchData == [j \in 1..Len(batch) |->
                            BatchRow(batch[j], iOptions.useMockEmbeddings,
                                     iOptions.seed, mockCalls + j)]
       IN  /\ mockCalls' = IF iOptions.useMockEmbeddings
                           THEN mockCalls + Len(batch) ELSE mockCalls
           /\ prepared' = prepared \o batchData
           /\ \E dbUp \in BOOLEAN :
                /\ ~dbUp => dbFaults < MaxDbFaults
                /\ dbFaults' = IF dbUp THEN dbFaults ELSE dbFaults + 1
                /\ IF dbUp /\ ~PrimaryKeyConflict(store, batchData)
                   THEN /\ store' = InsertRows(store, batchData, ingestRun)
                        /\ stats' = [stats EXCEPT !.insertedChunks =
                                        @ + Len(batch)]
                        /\ UNCHANGED <<ipc, iExit>>
                   ELSE /\ store' = store
                        /\ stats' = [stats EXCEPT !.errors =
                                        Append(@, batchNum)]
                        /\ ipc' = IngestErrorContinue.ipc
                        /\ iExit' = IngestErrorContinue.iExit
    /\ iI' = JsAdd(iI, iOptions.batchSize)
    /\ UNCHANGED <<iOptions, allChunks, ingestRun, chunkedDir>>
    /\ UNCHANGED embedVars
    /\ UNCHANGED <<chunkVars, searchVars, queryVars, driverVars,
                   pageVars>>

\* the loop is over: the summary is printed, the connection closed
IngestFinish ==
    /\ ipc = "loop"
    /\ ~JsLess(iI, Len(allChunks))
    /\ ipc' = "done"
    /\ iExit' = 0
    /\ UNCHANGED <<iOptions, allChunks, iI, stats, mockCalls, prepared,
                   ingestRun, dbFaults, store, chunkedDir>>
    /\ UNCHANGED embedVars
    /\ UNCHANGED <<chunkVars, searchVars, queryVars, driverVars,
                   pageVars>>

-----------------------------------------------------------------------------
(* route.ts and semantic-search.ts: searchSimilarChunks *)

\* cosine similarity of two vectors, kept exact: dot / sqrt(den)
Dot(a, b) == a[1] * b[1] + a[2] * b[2]

Similarity(a, b) == [dot |-> Dot(a, b), den |-> Dot(a, a) * Dot(b, b)]

SignedSquare(n) == IF n < 0 THEN 0 - n * n ELSE n * n

\* x <= y for two similarities
SimLeq(x, y) == SignedSquare(x.dot) * y.den <= SignedSquare(y.dot) * x.den

\* similarity >= similarityThreshold, for the threshold 0.0
SimilarityThreshold == 0

AtLeastThreshold(x) == x.dot >= SimilarityThreshold

\* the vectors of stored rows and of queries
StoredVectors == {<<1, 0>>, <<0, 1>>, <<-1, 0>>, <<1, 1>>}
QueryVectors == {<<1, 0>>, <<1, 1>>}

VectorOf(v) == [model |-> "mock", v |-> v]

StoredRow(k, embedding) ==
    [id |-> ChunkId(SourcePaths[1], k),
     row |-> [BatchRow(ChunkOnDisk(1, k), FALSE, 0, 0)
                 EXCEPT !.embedding = embedding],
     createdAt |-> 1]

\* the limit of the chat route, and the default of the CLI
DefaultLimit == 5

\* a table with more embedded rows than the default limit
LargeStore ==
    [k \in 1..(DefaultLimit + 1) |->
        StoredRow(k, VectorOf(IF k % 2 = 0 THEN <<1, 1>> ELSE
                              IF k % 3 = 0 THEN <<-1, 0>> ELSE <<1, 0>>))]

SearchStores ==
    {LargeStore} \cup
    UNION {{[k \in 1..n |-> StoredRow(k, e[k])] :
               e \in [1..n -> {NullVector}
                                \cup {VectorOf(v) : v \in StoredVectors}]} :
           n \in 0..MaxStoreRows}

\* WHERE embedding IS NOT NULL
EmbeddedRows(table) ==
    {r \in 1..Len(table) : table[r].row.embedding # NullVector}

\* 1 - (embedding <=> q)
SimilarityOf(table, r, q) == Similarity(table[r].row.embedding.v, q)

\* ORDER BY embedding <=> q LIMIT limit: rows of equal distance come in
\* any order
RECURSIVE OrderByDistance(_, _, _, _)
OrderByDistance(table, rows, q, limit) ==
    IF limit = 0 \/ rows = {} THEN {<<>>}
    ELSE LET nearest == {r \in rows : \A x \in rows :
                            SimLeq(SimilarityOf(table, x, q),
                                   SimilarityOf(table, r, q))}
         IN  UNION {{<<r>> \o rest :
                        rest \in OrderByDistance(table, rows \ {r}, q,
                                                 limit - 1)} :
                    r \in nearest}

\* the columns of the SELECT
ResultRow(table, r, q) ==
    [id |-> table[r].row.id,
     text |-> table[r].row.text,
     source |-> table[r].row.source,
     heading |-> table[r].row.heading,
     title |-> table[r].row.title,
     slug |-> table[r].row.slug,
     similarity |-> SimilarityOf(table, r, q)]

SelectSimilar(table, q, limit) ==
    {[j \in 1..Len(order) |-> ResultRow(table, order[j], q)] :
        order \in OrderByDistance(table, EmbeddedRows(table), q, limit)}

\* a filter that keeps only the similarities above the threshold
FilterAboveThreshold(results) ==
    SelectSeq(results,
              LAMBDA result : result.similarity.dot > SimilarityThreshold)

\* results.filter(result => result.similarity >= similarityThreshold)
FilterByThreshold(results) ==
    SelectSeq(results, LAMBDA result : AtLeastThreshold(result.similarity))

\* the columns of the SELECT of the chat route
RouteResultRow(table, r, q) ==
    [id |-> table[r].row.id,
     text |-> table[r].row.text,
     source |-> table[r].row.source,
     heading |-> table[r].row.heading,
     title |-> table[r].row.title,
     slug |-> table[r].row.slug,
     start_line |-> table[r].row.startLine,
     end_line |-> table[r].row.endLine,
     similarity |-> SimilarityOf(table, r, q)]

\* route.ts searchSimilarChunks
RouteSearchSimilarChunks(table, q, limit) ==
    {[j \in 1..Len(order) |-> RouteResultRow(table, order[j], q)] :
        order \in OrderByDistance(table, EmbeddedRows(table), q, limit)}

\* semantic-search.ts searchSimilarChunks
CliSearchSimilarChunks(table, q, limit) ==
    {FilterByThreshold(results) : results \in SelectSimilar(table, q, limit)}

\* --limit=N of the CLI, after parseInt(...) || 5
CliLimits == {1, 2, DefaultLimit}

NoQuery == [searcher |-> "none"]

SearchIdle ==
    /\ spc = "idle"
    /\ sQuery = NoQuery
    /\ sResults = <<>>

\* POST: searchSimilarChunks(queryEmbedding, 5)
RouteSearch ==
    /\ cpc = "off"
    /\ ipc = "idle"
    /\ \E q \in QueryVectors :
           /\ sQuery' = [searcher |-> "route", embedding |-> q,
                         limit |-> DefaultLimit]
           /\ sResults' \in RouteSearchSimilarChunks(store, q, DefaultLimit)
    /\ spc' = "answered"
    /\ UNCHANGED <<chunkVars, pipelineVars, queryVars, driverVars,
                   pageVars>>

\* performSemanticSearch: searchSimilarChunks(questionEmbedding, limit, 0.0)
CliSearch ==
    /\ cpc = "off"
    /\ ipc = "idle"
    /\ \E q \in QueryVectors, limit \in CliLimits :
           /\ sQuery' = [searcher |-> "cli", embedding |-> q, limit |-> limit]
           /\ sResults' \in CliSearchSimilarChunks(store, q, limit)
    /\ spc' = "answered"
    /\ UNCHANGED <<chunkVars, pipelineVars, queryVars, driverVars,
                   pageVars>>

-----------------------------------------------------------------------------
(* Claims about the retriever *)

\* E: the stored chunks that have an embedding
E == Cardinality(EmbeddedRows(store))

ResultIds == {sResults[j].id : j \in 1..Len(sResults)}

LeftOut == {r \in EmbeddedRows(store) : store[r].id \notin ResultIds}

\* the results are distinct stored chunks with an embedding, in
\* non-increasing similarity, and no chunk left out is more similar to the
\* query than one returned
MostSimilarDescending ==
    /\ \A j \in 1..Len(sResults) :
           \E r \in EmbeddedRows(store) :
               /\ store[r].id = sResults[j].id
               /\ sResults[j].similarity
                      = SimilarityOf(store, r, sQuery.embedding)
    /\ \A i, j \in 1..Len(sResults) :
           /\ i < j => SimLeq(sResults[j].similarity, sResults[i].similarity)
           /\ i # j => sResults[i].id # sResults[j].id
    /\ \A r \in LeftOut, j \in 1..Len(sResults) :
           SimLeq(SimilarityOf(store, r, sQuery.embedding),
                  sResults[j].similarity)

Eligible ==
    {r \in EmbeddedRows(store) :
        sQuery.searcher = "cli" =>
            AtLeastThreshold(SimilarityOf(store, r, sQuery.embedding))}

-----------------------------------------------------------------------------
(* Claims about the embedding and ingest scripts *)

RowsWithId(id) == {r \in 1..Len(store) : store[r].id = id}

\* C1: after a second run of the writer over chunks whose ids are already
\* stored, the store holds exactly one row per chunk id and that row carries
\* the values written by the second run
C1_ReingestOverwrites ==
    (ingestRun = 2 /\ ipc = "done" /\ iExit = 0 /\ dbFaults = 0) =>
        \A k \in 1..Len(allChunks) :
            /\ Cardinality(RowsWithId(allChunks[k].id)) = 1
            /\ \A r \in RowsWithId(allChunks[k].id) :
                   store[r].row = prepared[k]

\* C9: once the embedding script and then the ingest script have run to the
\* end without a fault, the row stored for every embedded chunk carries the
\* vector the embedding script produced for it
C9_StoredVectorIsEmbedded ==
    (epc = "done" /\ ipc = "done" /\ iExit = 0 /\ dbFaults = 0
        /\ eFaults = 0) =>
        \A name \in DOMAIN embeddedDir :
            \A j \in 1..Len(embeddedDir[name]) :
                \E r \in RowsWithId(embeddedDir[name][j].id) :
                    store[r].row.embedding = embeddedDir[name][j].embedding

ThrownCalls ==
    {j \in 1..Len(eEvents) :
        eEvents[j].type = "call" /\ eEvents[j].outcome = "throw"}

-----------------------------------------------------------------------------
(* Claims about embedChunks *)

\* the chunks the running call of embedChunks was given
EmbedInput ==
    IF eFile \in 1..Len(chunkedDir) THEN chunkedDir[eFile].chunks ELSE <<>>

\* the calls of the run for chunk i (1-based) of the file being embedded
\* that returned a vector for every text
FullCallsFor(i) ==
    {j \in 1..Len(eEvents) :
        /\ eEvents[j].type = "call"
        /\ eEvents[j].file = chunkedDir[eFile].name
        /\ eEvents[j].outcome = "ok"
        /\ eEvents[j].from < i
        /\ i <= eEvents[j].from + eEvents[j].count}

\* C11: what embedChunks has built, and returns, is the input in its order:
\* after each batch the results are the chunks handed in so far, on return
\* there are as many results as chunks, and result i is chunk i carrying
\* the vector the service returned for the text of chunk i
C11_OrderPreserved ==
    epc \in {"embedding", "delay", "embedded"} =>
        /\ Len(eResults) = Min(eI, Len(EmbedInput))
        /\ epc = "embedded" => Len(eResults) = Len(EmbedInput)
        /\ \A i \in 1..Len(eResults) :
               /\ eResults[i].id = EmbedInput[i].id
               /\ eResults[i].text = EmbedInput[i].text
               /\ eResults[i].metadata = EmbedInput[i].metadata
               /\ FullCallsFor(i) # {} =>
                      eResults[i].embedding
                          = Voyage(EmbedInput[i].text, "document")

\* embedChunks returns for a file that took two calls, the second for a
\* batch that is not full
C11_Witness ==
    /\ epc = "embedded"
    /\ Len(eResults) = EMBED_BATCH_SIZE + 1
    /\ FullCallsFor(1) # {}
    /\ FullCallsFor(EMBED_BATCH_SIZE + 1) # {}

\* the calls of the run that returned fewer vectors than texts
ShortCalls ==
    {j \in 1..Len(eEvents) :
        eEvents[j].type = "call" /\ eEvents[j].outcome = "short"}

\* C12 (ingestion): a call that returns fewer vectors than it was sent
\* texts fails the batch, so it ends the run as a thrown call does, and no
\* chunk without an embedding is among the results or in an output file
C12_CountMismatchIsError ==
    /\ \A j \in ShortCalls :
           /\ j = Len(eEvents)
           /\ epc = "failed"
    /\ \A i \in 1..Len(eResults) : eResults[i].embedding # UndefinedVector
    /\ \A name \in DOMAIN embeddedDir :
           \A i \in 1..Len(embeddedDir[name]) :
               embeddedDir[name][i].embedding # UndefinedVector

-----------------------------------------------------------------------------
(* Claims about the batch loop of ingestChunks *)

\* the batches the loop has attempted so far, and the size of batch b
BatchesAttempted ==
    IF iI = 0 THEN 0
    ELSE ((Min(iI, Len(allChunks)) - 1) \div iOptions.batchSize) + 1

BatchLength(b) ==
    Min(iOptions.batchSize, Len(allChunks) - (b - 1) * iOptions.batchSize)

FailedBatches == {stats.errors[j] : j \in 1..Len(stats.errors)}

RECURSIVE SumOfBatches(_)
SumOfBatches(B) ==
    IF B = {} THEN 0
    ELSE LET b == CHOOSE x \in B : TRUE
         IN  BatchLength(b) + SumOfBatches(B \ {b})

\* console.log(`Failed: ${stats.totalChunks - stats.insertedChunks}`)
FailedChunks == stats.totalChunks - stats.insertedChunks

\* C13: the loop attempts every batch once and in order, failed batches
\* included: what it has prepared is the chunks read up to the loop index,
\* in their order; the errors are the numbers of the failed batches, in
\* order; inserted is the total size of the batches that did not fail, and
\* that many rows of this run are in the table; when the loop is over every
\* chunk was attempted and inserted + failed is the number of chunks read
C13_EveryBatchOnce ==
    (ipc = "loop" \/ (ipc = "done" /\ iExit = 0)) =>
        /\ IdsOf(prepared)
               = IdsOf(SubSeq(allChunks, 1, Min(iI, Len(allChunks))))
        /\ FailedBatches \subseteq 1..BatchesAttempted
        /\ \A i, j \in 1..Len(stats.errors) :
               i < j => stats.errors[i] < stats.errors[j]
        /\ stats.insertedChunks
               = SumOfBatches((1..BatchesAttempted) \ FailedBatches)
        /\ Cardinality({r \in 1..Len(store) : store[r].createdAt = ingestRun})
               = stats.insertedChunks
        /\ ipc = "done" =>
               /\ IdsOf(prepared) = IdsOf(allChunks)
               /\ FailedChunks = SumOfBatches(FailedBatches)
               /\ stats.insertedChunks + FailedChunks = Len(allChunks)

\* a run is over in which a batch failed and a later batch was written
C13_Witness ==
    /\ ipc = "done"
    /\ iExit = 0
    /\ \E b \in FailedBatches :
           \E c \in (1..BatchesAttempted) \ FailedBatches : b < c

\* the chunkIndex stored with a returned chunk
ChunkIndexOf(result) ==
    LET r == CHOOSE r \in 1..Len(store) : store[r].id = result.id
    IN  store[r].row.chunkIndex

\* every list the searcher of the last query can return for its store,
\* vector and limit
PossibleResults ==
    IF sQuery.searcher = "route"
    THEN RouteSearchSimilarChunks(store, sQuery.embedding, sQuery.limit)
    ELSE CliSearchSimilarChunks(store, sQuery.embedding, sQuery.limit)

\* C15: for a fixed store and query vector a search has one possible ordered
\* result list, and results of equal similarity appear in ascending
\* chunkIndex order
C15_DeterministicTieBreak ==
    spc = "answered" =>
        /\ PossibleResults = {sResults}
        /\ \A i, j \in 1..Len(sResults) :
               (/\ i < j
                /\ SimLeq(sResults[i].similarity, sResults[j].similarity)
                /\ SimLeq(sResults[j].similarity, sResults[i].similarity))
                   => ChunkIndexOf(sResults[i]) < ChunkIndexOf(sResults[j])

-----------------------------------------------------------------------------
(* Answering a question: the chat route, the ask CLI, the search CLI *)

\* JavaScript truthiness of a text column
\* a column holds a string or a sequence of characters; the two are told
\* apart by their printed form
Truthy(v) ==
    ToString(v) \notin {ToString(Null), ToString(Undefined), ToString(""),
                        ToString(<<>>)}

Line(label, value) == [label |-> label, value |-> value]

MdnDocs == "https://developer.mozilla.org/en-US/docs/"

\* parts of one chunk: the lines of its block of the context, idx 0-based
ContextBlock(chunk, idx) ==
    << Line("--- Document", Decimal(idx + 1)),
       Line("Title:", IF Truthy(chunk.title) THEN chunk.title ELSE "N/A"),
       Line("Source:", chunk.source) >>
    \o (IF Truthy(chunk.heading)
        THEN << Line("Section:", chunk.heading) >> ELSE <<>>)
    \o (IF Truthy(chunk.slug)
        THEN << Line("URL:", <<MdnDocs, chunk.slug>>) >> ELSE <<>>)
    \o << Line("Relevance:", chunk.similarity),
          Line("", ""),
          Line("Content:", chunk.text),
          Line("", "") >>

\* contextParts.join("\n"): the lines of all blocks; "" has no line
RECURSIVE JoinBlocks(_, _)
JoinBlocks(relevantChunks, idx) ==
    IF idx >= Len(relevantChunks) THEN <<>>
    ELSE ContextBlock(relevantChunks[idx + 1], idx)
             \o JoinBlocks(relevantChunks, idx + 1)

\* route.ts buildContext
RouteBuildContext(relevantChunks) == JoinBlocks(relevantChunks, 0)

NoDocumentation == << Line("No relevant documentation found.", "") >>

\* buildContext of the ask CLI
AskBuildContext(results) ==
    IF Len(results) = 0 THEN NoDocumentation ELSE JoinBlocks(results, 0)

\* a citation numbered by the 0-based index itself
CitationIdZeroBased(idx) == Decimal(idx)

\* id: (idx + 1).toString()
CitationId(idx) == Decimal(idx + 1)

\* text.substring(0, 200) of the citation
ExcerptLength == 200

Ellipsis == <<".", ".", ".">>

\* one element of relevantChunks.map((chunk, idx) => ...)
Citation(chunk, idx) ==
    [id |-> CitationId(idx),
     mdnTitle |-> IF Truthy(chunk.title)
                  THEN <<chunk.title, " - ", chunk.heading>>
                  ELSE IF Truthy(chunk.heading) THEN chunk.heading
                  ELSE "MDN Documentation",
     mdnUrl |-> IF Truthy(chunk.slug)
                THEN <<MdnDocs, chunk.slug, "#line-", chunk.start_line>>
                ELSE <<MdnDocs, "Web/JavaScript">>,
     excerpt |-> Substring(JoinLines(chunk.text), 0, ExcerptLength)
                     \o Ellipsis]

Citations(relevantChunks) ==
    [j \in 1..Len(relevantChunks) |-> Citation(relevantChunks[j], j - 1)]

NoRequest == [path |-> "none"]
NoVector == [origin |-> "none"]

QueryIdle ==
    /\ qpc = "idle"
    /\ qReq = NoRequest
    /\ qPending = "none"
    /\ qCalls = <<>>
    /\ qVector = NoVector
    /\ qResults = <<>>
    /\ qContext = <<>>
    /\ qCitations = <<>>
    /\ qResponse = [kind |-> "none"]

\* a question and the environment of the process that receives it: POST of
\* the chat route, main of the ask CLI, main of the search CLI
Requests ==
    {[path |-> p, message |-> m, llmKey |-> l, voyageKey |-> v, limit |-> k] :
        p \in {"route", "ask", "search"}, m \in {"ok", "missing"},
        l \in BOOLEAN, v \in BOOLEAN, k \in CliLimits}

\* the chat route always searches with limit 5; the search CLI never reads
\* the key of the generation service
RequestsMade ==
    {req \in Requests :
        /\ req.path = "route" => req.limit = DefaultLimit
        /\ req.path = "search" => req.llmKey}

\* inputType "document" handed to the embedding call of a question
DocumentInputType == "document"

\* providerOptions: { voyage: { inputType: "query" } }
QueryInputType == "query"

EmbeddingCall ==
    [service |-> "embedding", inputType |-> QueryInputType,
     outcome |-> "pending"]

SearchCall(vector, limit) ==
    [service |-> "search", vector |-> vector, limit |-> limit,
     outcome |-> "pending"]

GenerationCall(context) ==
    [service |-> "generation", context |-> context, outcome |-> "pending"]

\* what the caller receives when the handler ends with an error
ErrorReply(req, status, error) ==
    [status |-> status, kind |-> "error", error |-> error]

\* the catch of POST, and the catch of main of the CLIs
CaughtReply(req) ==
    IF req.path = "route"
    THEN ErrorReply(req, 500, "Failed to process request")
    ELSE ErrorReply(req, 1, "Script failed")

\* the checks made before the first service call; "none" when they pass
EarlyReply(req) ==
    IF req.path = "route"
    THEN IF req.message # "ok"
         THEN ErrorReply(req, 400, "Message is required")
         ELSE IF ~req.llmKey
         THEN ErrorReply(req, 500, "OPENAI_API_KEY not configured")
         ELSE [kind |-> "none"]
    ELSE IF req.path = "ask"
    THEN IF ~req.voyageKey
         THEN ErrorReply(req, 1, "No Voyage API key found")
         ELSE IF ~req.llmKey
         THEN ErrorReply(req, 1, "ANTHROPIC_API_KEY is required")
         ELSE IF req.message # "ok"
         THEN ErrorReply(req, 1, "No question provided")
         ELSE [kind |-> "none"]
    ELSE IF ~req.voyageKey
         THEN ErrorReply(req, 1, "No Voyage API key found")
         ELSE IF req.message # "ok"
         THEN ErrorReply(req, 1, "No question provided")
         ELSE [kind |-> "none"]

\* the handler starts: the early returns, then generateQueryEmbedding /
\* generateQuestionEmbedding, which in the chat route without a Voyage key
\* returns a random vector and goes on to the search
QueryReceive ==
    /\ qpc = "idle"
    /\ cpc = "off"
    /\ epc \in {"idle", "done", "failed"}
    /\ \E req \in RequestsMade :
           /\ qReq' = req
           /\ IF EarlyReply(req).kind # "none"
              THEN /\ qpc' = "done"
                   /\ qResponse' = EarlyReply(req)
                   /\ UNCHANGED <<qPending, qCalls, qVector>>
              ELSE IF req.path = "route" /\ ~req.voyageKey
              THEN \E v \in QueryVectors :
                       /\ qVector' = [origin |-> "mock", v |-> v]
                       /\ qCalls' = <<SearchCall(v, req.limit)>>
                       /\ qPending' = "pending"
                       /\ qpc' = "searching"
                       /\ UNCHANGED qResponse
              ELSE /\ qCalls' = <<EmbeddingCall>>
                   /\ qPending' = "pending"
                   /\ qpc' = "embedding"
                   /\ UNCHANGED <<qVector, qResponse>>
    /\ UNCHANGED <<qResults, qContext, qCitations>>
    /\ UNCHANGED <<chunkVars, pipelineVars, searchVars, driverVars,
                   pageVars>>

\* the awaited service answers or fails; nothing in the code bounds the wait
ServiceSettles ==
    /\ qPending = "pending"
    /\ qPending' \in {"ok", "throw"}
    /\ qCalls' = [qCalls EXCEPT ![Len(qCalls)].outcome = qPending']
    /\ UNCHANGED <<qpc, qReq, qVector, qResults, qContext, qCitations,
                   qResponse>>
    /\ UNCHANGED <<chunkVars, pipelineVars, searchVars, driverVars,
                   pageVars>>

\* the await of the embedding call resumes: searchSimilarChunks is called,
\* or the error reaches the catch
AfterEmbedding ==
    /\ qpc = "embedding"
    /\ qPending \in {"ok", "throw"}
    /\ IF qPending = "throw"
       THEN /\ qpc' = "done"
            /\ qPending' = "none"
            /\ qResponse' = CaughtReply(qReq)
            /\ UNCHANGED <<qCalls, qVector>>
       ELSE \E v \in QueryVectors :
                /\ qVector' = [origin |-> "voyage", v |-> v]
                /\ qCalls' = Append(qCalls, SearchCall(v, qReq.limit))
                /\ qPending' = "pending"
                /\ qpc' = "searching"
                /\ UNCHANGED qResponse
    /\ UNCHANGED <<qReq, qResults, qContext, qCitations>>
    /\ UNCHANGED <<chunkVars, pipelineVars, searchVars, driverVars,
                   pageVars>>

\* the await of the search resumes
AfterSearch ==
    /\ qpc = "searching"
    /\ qPending \in {"ok", "throw"}
    /\ IF qPending = "throw"
       THEN /\ qpc' = "done"
            /\ qPending' = "none"
            /\ qResponse' = CaughtReply(qReq)
            /\ UNCHANGED <<qCalls, qResults, qContext, qCitations>>
       ELSE IF qReq.path = "route"
       THEN \E rows \in RouteSearchSimilarChunks(store, qVector.v,
                                                 qReq.limit) :
                /\ qResults' = rows
                /\ qContext' = RouteBuildContext(rows)
                /\ qCitations' = Citations(rows)
                /\ qCalls' = Append(qCalls,
                                    GenerationCall(RouteBuildContext(rows)))
                /\ qPending' = "pending"
                /\ qpc' = "generating"
                /\ UNCHANGED qResponse
       ELSE \E rows \in CliSearchSimilarChunks(store, qVector.v,
                                               qReq.limit) :
                /\ qResults' = rows
                /\ UNCHANGED qCitations
                /\ IF qReq.path = "search"
                   THEN /\ qpc' = "done"
                        /\ qPending' = "none"
                        /\ qResponse' = [status |-> 0, kind |-> "results",
                                         results |-> rows]
                        /\ UNCHANGED <<qCalls, qContext>>
                   ELSE IF Len(rows) = 0
                   THEN /\ qpc' = "done"
                        /\ qPending' = "none"
                        /\ qResponse' = [status |-> 0, kind |-> "noDocs"]
                        /\ UNCHANGED <<qCalls, qContext>>
                   ELSE /\ qContext' = AskBuildContext(rows)
                        /\ qCalls' = Append(qCalls,
                                        GenerationCall(AskBuildContext(rows)))
                        /\ qPending' = "pending"
                        /\ qpc' = "generating"
                        /\ UNCHANGED qResponse
    /\ UNCHANGED <<qReq, qVector>>
    /\ UNCHANGED <<chunkVars, pipelineVars, searchVars, driverVars,
                   pageVars>>

\* the await of the generation resumes: the answer goes to the caller
AfterGeneration ==
    /\ qpc = "generating"
    /\ qPending \in {"ok", "throw"}
    /\ qpc' = "done"
    /\ qPending' = "none"
    /\ qResponse' =
           IF qPending = "throw" THEN CaughtReply(qReq)
           ELSE IF qReq.path = "route"
           THEN [status |-> 200, kind |-> "answer",
                 citations |-> qCitations,
                 chunksRetrieved |-> Len(qResults)]
           ELSE [status |-> 0, kind |-> "answer"]
    /\ UNCHANGED <<qReq, qCalls, qVector, qResults, qContext, qCitations>>
    /\ UNCHANGED <<chunkVars, pipelineVars, searchVars, driverVars,
                   pageVars>>

\* the embedding calls made for the question so far
QueryEmbeddingCalls ==
    {j \in 1..Len(qCalls) : qCalls[j].service = "embedding"}

\* the embedding calls the ingestion made so far
IngestionEmbeddingCalls ==
    {j \in 1..Len(eEvents) : eEvents[j].type = "call"}

\* C14: every embedding call of the ingestion passes inputType "document"
\* and every embedding call made to answer a question passes inputType
\* "query"
C14_ModesNeverSwapped ==
    /\ \A j \in IngestionEmbeddingCalls : eEvents[j].inputType = "document"
    /\ \A j \in QueryEmbeddingCalls : qCalls[j].inputType = "query"

\* documents were embedded, and a question had its embedding call answered
C14_Witness ==
    /\ IngestionEmbeddingCalls # {}
    /\ QueryEmbeddingCalls # {}
    /\ qpc = "searching"

\* the lines of the context that open a block
DocumentHeaders ==
    {i \in 1..Len(qContext) : qContext[i].label = "--- Document"}

\* the line that opens the block numbered j, and the first line of stated
\* label after it
HeaderOf(j) ==
    CHOOSE i \in DocumentHeaders : qContext[i].value = Decimal(j)

FirstAfter(i, label) ==
    MinOf({m \in i..Len(qContext) : qContext[m].label = label})

\* the chat route has searched and built context and citations
RouteAssembled ==
    /\ qReq.path = "route"
    /\ qpc \in {"generating", "done"}
    /\ qCalls # <<>>
    /\ qCalls[Len(qCalls)].service = "generation"

\* C16: for a result list of length n the citation list has length n, its
\* ids are 1..n in rank order, and citation i and the block "Document i" of
\* the context both describe result i
C16_CitationsFollowRank ==
    RouteAssembled =>
        /\ Len(qCitations) = Len(qResults)
        /\ Cardinality(DocumentHeaders) = Len(qResults)
        /\ \A j \in 1..Len(qResults) :
               /\ qCitations[j].id = Decimal(j)
               /\ Substring(qCitations[j].excerpt, 0,
                            Min(Len(JoinLines(qResults[j].text)),
                                ExcerptLength))
                      = Substring(JoinLines(qResults[j].text), 0,
                                  ExcerptLength)
               /\ \E i \in DocumentHeaders : qContext[i].value = Decimal(j)
               /\ qContext[FirstAfter(HeaderOf(j), "Source:")].value
                      = qResults[j].source
               /\ qContext[FirstAfter(HeaderOf(j), "Content:")].value
                      = qResults[j].text
               /\ \A k \in 1..Len(qResults) :
                      j < k => HeaderOf(j) < HeaderOf(k)

\* the chat route answered a question from five retrieved chunks
C16_Witness ==
    /\ RouteAssembled
    /\ qpc = "done"
    /\ qResponse.kind = "answer"
    /\ Len(qResponse.citations) = DefaultLimit

\* the search of the question returned and found nothing
RetrievedNothing ==
    /\ qpc \in {"generating", "done"}
    /\ qVector # NoVector
    /\ qResponse.kind # "error"
    /\ qResults = <<>>

\* the context text of the path: the one the chat route built, and what
\* buildContext of the ask CLI makes of the results (the ask CLI answers an
\* empty result list with a fixed message before it builds a context)
AssembledContext ==
    IF qReq.path = "route" THEN qContext ELSE AskBuildContext(qResults)

\* C17: when retrieval returns no results the context is the fixed sentinel
\* text, not the empty string, and the citation list is empty, in the chat
\* route and in the CLI query pipeline
C17_SentinelContext ==
    (RetrievedNothing /\ qReq.path \in {"route", "ask"}) =>
        /\ AssembledContext = NoDocumentation
        /\ qCitations = <<>>

\* the calls of a service that returned a result, by position in qCalls
Succeeded(service) ==
    {j \in 1..Len(qCalls) :
        qCalls[j].service = service /\ qCalls[j].outcome = "ok"}

\* C18: the generation service is called only after the embedding call and
\* the search both succeeded, and a question whose embedding or search
\* failed or was unavailable is never answered with a successful response
C18_NoUngroundedAnswer ==
    /\ \A j \in 1..Len(qCalls) :
           qCalls[j].service = "generation" =>
               /\ \E i \in Succeeded("embedding") : i < j
               /\ \E i \in Succeeded("search") : i < j
    /\ (qpc = "done" /\ qResponse.kind # "error") =>
           /\ Succeeded("embedding") # {}
           /\ Succeeded("search") # {}

\* the handler waits for the embedding call or for the search
AwaitingRetrieval == qpc \in {"embedding", "searching"}

\* C19: a question never waits for its embedding call or its search for
\* ever: the call returns, or a timeout fails the request with an error
C19_RetrievalNeverHangs == AwaitingRetrieval ~> ~AwaitingRetrieval

-----------------------------------------------------------------------------
(* chunk-mdn.ts: chunkMdnDocs, the loop over the markdown files *)

\* the chunks chunkMarkdownFile builds from the documents of the splitter
RECURSIVE ChunksFrom(_, _, _, _, _)
ChunksFrom(text, path, splitDocs, i, prevEnd) ==
    IF i >= Len(splitDocs) THEN <<>>
    ELSE LET loc == calculateLineNumbers(MarkdownContent(text),
                                         splitDocs[i + 1], prevEnd)
         IN  <<BuildChunk(text, path, i, splitDocs[i + 1], prevEnd)>>
                 \o ChunksFrom(text, path, splitDocs, i + 1, loc.endLine)

chunkMarkdownFile(text, path, splitDocs) ==
    ChunksFrom(text, path, splitDocs, 0, 0)

\* fs.writeFileSync(path.join(outputDir, name), ...): replaces a file of
\* the same name
WriteFile(dir, name, content) ==
    SelectSeq(dir, LAMBDA f : f.name # name)
        \o <<[name |-> name, content |-> content]>>

ProcessingLog ==
    <<"_", "p", "r", "o", "c", "e", "s", "s", "i", "n", "g", "_", "l", "o",
      "g", ".", "j", "s", "o", "n">>

NoStats ==
    [totalFiles |-> 0, totalChunks |-> 0, errors |-> <<>>,
     processedFiles |-> <<>>]

DriverOff ==
    /\ markdownFiles = <<>>
    /\ mdI = 0
    /\ chunkStats = NoStats
    /\ outputDir = <<>>

\* a front-matter line js-yaml cannot parse: a flow sequence never closed
FmUnclosed == <<"title", ":", " ", "[">>

\* files whose front-matter block is present and is not YAML
MalformedFiles ==
    {<<Delimiter, FmUnclosed, Delimiter, TextX>>,
     <<Delimiter, FmTitle, FmUnclosed, Delimiter, H1A>>}

\* the lines between the delimiters of the front-matter block
MatterBlock(text) ==
    IF MatterCloseLine(text) = 0 THEN Tail(text)
    ELSE SubSeq(text, 2, MatterCloseLine(text) - 1)

\* matter(content) throws the YAMLException of js-yaml: gray-matter hands
\* the block to yaml.load and catches nothing
MatterThrows(text) ==
    /\ HasFrontMatter(text)
    /\ \E j \in 1..Len(MatterBlock(text)) :
           /\ Len(MatterBlock(text)[j]) >= 4
           /\ MatterBlock(text)[j][4] = "["

\* the markdown files of a run: short files, with and without front
\* matter, some of them with a blank body, some with a malformed block
DriverFiles ==
    {f \in Files : Len(f) <= 1 \/ (HasFrontMatter(f) /\ Len(f) <= 4)}
        \cup MalformedFiles

\* what the try block of the loop can throw for a file: nothing, an error
\* of the file system (readFileSync, writeFileSync), the error of matter
ThrownFor(text) ==
    {"EIO"} \cup (IF MatterThrows(text) THEN {"YAMLException"}
                  ELSE {"none"})

\* the relative paths of a tree with the directory d next to files whose
\* names start with "d_", in the order readdirSync lists them
NestedPaths ==
    << <<"d", "/", "a", ".", "m", "d">>,
       <<"d", "_", "a", ".", "m", "d">>,
       <<"d", "_", "b", ".", "m", "d">> >>

\* the trees findMarkdownFiles walks: a flat directory, and one with a
\* subdirectory
PathLayouts == {SourcePaths, NestedPaths}

\* findMarkdownFiles(inputDir, inputDir): files of distinct relative paths,
\* each with the documents the splitter returns for its body
MarkdownDirs ==
    UNION {{d \in [1..n -> [path : {layout[j] : j \in 1..MaxFiles},
                            text : DriverFiles]] :
               /\ \A j \in 1..n : d[j].path = layout[j]} :
           n \in 1..MaxFiles, layout \in PathLayouts}

SplitDocsOf(text) ==
    CHOOSE splitDocs \in SplitterOutputs(MarkdownContent(text)) : TRUE

\* the body of for (const filePath of batch): the file is chunked (its body
\* has at most one line, which the splitter returns whole or not at all),
\* written
\* and counted, or the error of chunkMarkdownFile or of the write is caught
\* and recorded; the batches of the outer loop only group the console output
DocsFile ==
    /\ mdI < Len(markdownFiles)
    /\ LET entry == markdownFiles[mdI + 1]
           fileChunks == chunkMarkdownFile(entry.text, entry.path,
                                           SplitDocsOf(entry.text))
       IN  \E error \in ThrownFor(entry.text) :
               IF error # "none"
               THEN /\ chunkStats' =
                           [chunkStats EXCEPT
                               !.errors = Append(@, [path |-> entry.path,
                                                     error |-> error])]
                    /\ UNCHANGED outputDir
               ELSE /\ outputDir' =
                           WriteFile(outputDir, OutputFileName(entry.path),
                                     [source |-> entry.path,
                                      totalChunks |-> Len(fileChunks),
                                      chunks |-> fileChunks])
                    /\ chunkStats' =
                           [chunkStats EXCEPT
                               !.totalFiles = @ + 1,
                               !.totalChunks = @ + Len(fileChunks),
                               !.processedFiles = Append(@, entry.path)]
    /\ mdI' = mdI + 1
    /\ UNCHANGED markdownFiles
    /\ UNCHANGED <<chunkVars, pipelineVars, searchVars, queryVars,
                   pageVars>>

\* after the loop: the summary, and _processing_log.json
DocsSummary ==
    /\ markdownFiles # <<>>
    /\ mdI = Len(markdownFiles)
    /\ outputDir' = WriteFile(outputDir, ProcessingLog, chunkStats)
    /\ mdI' = mdI + 1
    /\ UNCHANGED <<markdownFiles, chunkStats>>
    /\ UNCHANGED <<chunkVars, pipelineVars, searchVars, queryVars,
                   pageVars>>

\* the files the loop has gone through
FilesHandled == 1..Min(mdI, Len(markdownFiles))

YieldsNoChunks(j) == SplitDocsOf(markdownFiles[j].text) = <<>>

Recorded(list, j) ==
    \E k \in 1..Len(list) : list[k] = markdownFiles[j].path

Failed(j) ==
    \E k \in 1..Len(chunkStats.errors) :
        chunkStats.errors[k].path = markdownFiles[j].path

\* C20: a document whose body yields zero chunks is recorded as an error of
\* that document and not counted as a processed file, and the documents
\* after it are still handled
C20_ZeroChunksIsError ==
    /\ \A j \in FilesHandled :
           YieldsNoChunks(j) =>
               /\ Failed(j)
               /\ ~Recorded(chunkStats.processedFiles, j)
    /\ chunkStats.totalFiles = Len(chunkStats.processedFiles)
    /\ mdI >= Len(markdownFiles) =>
           \A j \in 1..Len(markdownFiles) :
               \/ Failed(j)
               \/ Recorded(chunkStats.processedFiles, j)

\* the file of the loop had no error of the file system
NoFileSystemError(j) ==
    \A k \in 1..Len(chunkStats.errors) :
        chunkStats.errors[k].path = markdownFiles[j].path
            => chunkStats.errors[k].error # "EIO"

\* the chunk file written for file j of the run
WrittenFor(j) ==
    {k \in 1..Len(outputDir) :
        /\ outputDir[k].name = OutputFileName(markdownFiles[j].path)
        /\ outputDir[k].content.source = markdownFiles[j].path}

\* C21: a file whose front-matter block is present but cannot be parsed is
\* still chunked, as a file without front matter, and is not recorded as a
\* failed document
C21_MalformedFrontMatterRecovered ==
    \A j \in FilesHandled :
        (MatterThrows(markdownFiles[j].text) /\ NoFileSystemError(j)) =>
            /\ ~Failed(j)
            /\ Recorded(chunkStats.processedFiles, j)
            /\ WrittenFor(j) # {}
            /\ \A k \in WrittenFor(j) :
                   outputDir[k].content.totalChunks >= 1

\* C22: the excerpt of a citation is the chunk text unchanged when the
\* text has at most 200 characters, and its first 200 characters followed
\* by an ellipsis when it is longer
C22_EllipsisOnlyIfTruncated ==
    RouteAssembled =>
        \A j \in 1..Len(qCitations) :
            LET text == JoinLines(qResults[j].text) IN
            qCitations[j].excerpt =
                IF Len(text) <= ExcerptLength THEN text
                ELSE Substring(text, 0, ExcerptLength) \o Ellipsis

\* 0 <= s <= 1 for the similarity s = dot / sqrt(den)
InUnitInterval(s) ==
    /\ s.dot >= 0
    /\ s.dot * s.dot <= s.den

\* C23: every result a search returns has a similarity between 0 and 1
C23_SimilarityInUnitInterval ==
    spc = "answered" =>
        \A j \in 1..Len(sResults) : InUnitInterval(sResults[j].similarity)

\* C24: every embedding call of a run carries at most 50 texts, and between
\* every two consecutive calls of the run the fixed delay has elapsed
C24_DelayBetweenCalls ==
    /\ \A j \in IngestionEmbeddingCalls :
           eEvents[j].count <= EMBED_BATCH_SIZE
    /\ \A i, j \in IngestionEmbeddingCalls :
           (i < j /\ \A k \in IngestionEmbeddingCalls : ~(i < k /\ k < j))
               => \E k \in (i + 1)..(j - 1) :
                      /\ eEvents[k].type = "delay"
                      /\ eEvents[k].ms = RATE_LIMIT_DELAY_MS

\* the number that follows --batch or -b in the arguments, 100 without
ExpectedBatchSize(args) ==
    IF IndexOf(args, "--batch") >= 0
    THEN ParseInt(ArgAt(args, IndexOf(args, "--batch") + 1))
    ELSE IF IndexOf(args, "-b") >= 0
    THEN ParseInt(ArgAt(args, IndexOf(args, "-b") + 1))
    ELSE 100

StartedWithArgs == ipc \in {"loop", "done"} /\ "args" \in DOMAIN iOptions

\* C25: without --batch or -b the batch size is 100 whatever the other
\* arguments, with --batch N or -b N it is N, and the batch loop attempts
\* every chunk read
C25_BatchSizeFromArgs ==
    StartedWithArgs =>
        /\ ~IsNaN(iOptions.batchSize)
        /\ iOptions.batchSize = ExpectedBatchSize(iOptions.args)
        /\ (ipc = "done" /\ ToString(iExit) = ToString(0))
               => IdsOf(prepared) = IdsOf(allChunks)

\* C26: every chunk's startLine is at least 1 and its endLine is at most the
\* number of lines of the original file (stated for the files whose front
\* matter leaves the computed fields alone)
C26_LinesInsideFile ==
    NoComputedKeyInFrontMatter =>
        \A k \in 1..Len(chunks) :
            /\ chunks[k].metadata.startLine >= 1
            /\ chunks[k].metadata.endLine <= Len(file)

\* the heading the chunker computes for chunk k: the heading context of the
\* located start line, else the chunk's own heading, else the default
ComputedHeading(k) ==
    LET headingContext ==
            findHeadingContext(MarkdownContent(file),
                               located[k].startLine - 1)
        chunkHeading == extractHeading(chunks[k].text)
    IN  [heading |->
             IF headingContext.heading # <<>> THEN headingContext.heading
             ELSE IF chunkHeading.heading # <<>> THEN chunkHeading.heading
             ELSE <<"I", "n", "t", "r", "o", "d", "u", "c", "t", "i", "o",
                    "n">>,
         level |->
             IF headingContext.level # 0 THEN headingContext.level
             ELSE IF chunkHeading.level # 0 THEN chunkHeading.level
             ELSE 1]

\* C28: in every chunk's metadata source, chunkIndex, startLine, endLine,
\* heading and headingLevel hold the values the chunker computed, whatever
\* keys the front matter of the document contains
C28_ComputedFieldsKept ==
    \A k \in 1..Len(chunks) :
        LET metadata == chunks[k].metadata
            offset == FrontmatterOffset(file)
        IN  /\ metadata.source = relativePath
            /\ metadata.chunkIndex = k - 1
            /\ metadata.startLine = located[k].startLine + offset
            /\ metadata.endLine = located[k].endLine + offset
            /\ metadata.heading = ComputedHeading(k).heading
            /\ metadata.headingLevel = ComputedHeading(k).level

\* the ids of the chunks the run builds for file j
ChunkIdsOf(j) ==
    LET fileChunks == chunkMarkdownFile(markdownFiles[j].text,
                                        markdownFiles[j].path,
                                        SplitDocsOf(markdownFiles[j].text))
    IN  {fileChunks[k].id : k \in 1..Len(fileChunks)}

\* file j was chunked and written by the run
Processed(j) == Recorded(chunkStats.processedFiles, j)

\* C27: within one chunking run the chunks of two different source files
\* never receive the same chunk id, and two different source files are never
\* written to the same chunk output file: every file the run has written
\* still has its chunk file
C27_NoCollisionAcrossFiles ==
    /\ \A j1, j2 \in FilesHandled :
           (j1 # j2 /\ Processed(j1) /\ Processed(j2)) =>
               /\ ChunkIdsOf(j1) \cap ChunkIdsOf(j2) = {}
               /\ OutputFileName(markdownFiles[j1].path)
                      # OutputFileName(markdownFiles[j2].path)
    /\ \A j \in FilesHandled : Processed(j) => WrittenFor(j) # {}

-----------------------------------------------------------------------------
(* The chat page: Home of page.tsx, with the InputBar, the EmptyState and
   the buttons of the assistant messages *)

\* the requests a page is followed through
MaxChatRequests == 3

Questions == {"question"}

\* const userMessage = { id: generateId(), role: "user", content, ... };
\* isPinned is absent, which reads as false
userMessage(id, content) ==
    [id |-> id, role |-> "user", content |-> content, isPinned |-> FALSE]

\* const assistantMessage = { id: generateId(), role: "assistant", ... }:
\* the response of the API, or the text of the connection error
assistantMessage(id, content) ==
    [id |-> id, role |-> "assistant", content |-> content,
     isPinned |-> FALSE]

\* useLocalStorage("messages", []): nothing saved, or the conversation an
\* earlier visit left
SavedConversations ==
    { <<>>,
      <<userMessage(1, "question"), assistantMessage(2, "response")>> }

PageOff ==
    /\ messages = <<>>
    /\ isGenerating = FALSE
    /\ fetches = <<>>
    /\ idCounter = 0
    /\ chatRequests = 0

\* callStreamingAPI(currentMessages) up to await fetch: the request carries
\* the content of the last message, and the call keeps currentMessages
Fetch(currentMessages) ==
    [currentMessages |-> currentMessages,
     message |-> currentMessages[Len(currentMessages)].content]

\* messages.findIndex((m) => m.id === messageId), 1-based, 0 for -1
FindIndex(list, messageId) ==
    IF \E k \in 1..Len(list) : list[k].id = messageId
    THEN CHOOSE k \in 1..Len(list) :
             /\ list[k].id = messageId
             /\ \A j \in 1..(k - 1) : list[j].id # messageId
    ELSE 0

\* handleSendMessage(content), called by handleSubmit of the InputBar (which
\* returns when disabled), by a suggestion button (disabled with the
\* InputBar) or by an example of the EmptyState (rendered only when there
\* is no message and nothing is generated), up to await callStreamingAPI
handleSendMessage ==
    /\ ~isGenerating
    /\ chatRequests < MaxChatRequests
    /\ \E content \in Questions :
           LET updatedMessages ==
                   Append(messages, userMessage(idCounter + 1, content))
           IN  /\ messages' = updatedMessages
               /\ fetches' = Append(fetches, Fetch(updatedMessages))
    /\ idCounter' = idCounter + 1
    /\ isGenerating' = TRUE
    /\ chatRequests' = chatRequests + 1
    /\ UNCHANGED <<chunkVars, pipelineVars, searchVars, queryVars,
                   driverVars>>

\* handleRegenerate(messageId), the button of an assistant message, up to
\* await callStreamingAPI; with nothing to keep, reading the content of the
\* last message throws inside the try block and the error message is set
handleRegenerate ==
    /\ chatRequests < MaxChatRequests
    /\ \E k \in 1..Len(messages) :
           /\ messages[k].role = "assistant"
           /\ LET messageIndex == FindIndex(messages, messages[k].id)
                  messagesToKeep == SubSeq(messages, 1, messageIndex - 1)
              IN  IF messagesToKeep = <<>>
                  THEN /\ messages' =
                              <<assistantMessage(idCounter + 1, "error")>>
                       /\ idCounter' = idCounter + 1
                       /\ isGenerating' = FALSE
                       /\ UNCHANGED fetches
                  ELSE /\ messages' = messagesToKeep
                       /\ fetches' = Append(fetches, Fetch(messagesToKeep))
                       /\ isGenerating' = TRUE
                       /\ UNCHANGED idCounter
    /\ chatRequests' = chatRequests + 1
    /\ UNCHANGED <<chunkVars, pipelineVars, searchVars, queryVars,
                   driverVars>>

\* handlePin(messageId), the button of an assistant message
handlePin ==
    /\ \E k \in 1..Len(messages) :
           /\ messages[k].role = "assistant"
           /\ messages' =
                  [j \in 1..Len(messages) |->
                      IF messages[j].id = messages[k].id
                      THEN [messages[j] EXCEPT !.isPinned = ~@]
                      ELSE messages[j]]
    /\ UNCHANGED <<isGenerating, fetches, idCounter, chatRequests>>
    /\ UNCHANGED <<chunkVars, pipelineVars, searchVars, queryVars,
                   driverVars>>

\* handleRestart, the button of the TopBar, confirmed
handleRestart ==
    /\ Len(messages) > 0
    /\ messages' = <<>>
    /\ UNCHANGED <<isGenerating, fetches, idCounter, chatRequests>>
    /\ UNCHANGED <<chunkVars, pipelineVars, searchVars, queryVars,
                   driverVars>>

\* the rest of callStreamingAPI and of the handler that awaits it: the
\* response of a call arrives, or its error is caught; the assistant
\* message is set after the messages the call was started with, and the
\* handler sets isGenerating to false
FetchSettles ==
    /\ \E k \in 1..Len(fetches), content \in {"response", "error"} :
           /\ messages' =
                  Append(fetches[k].currentMessages,
                         assistantMessage(idCounter + 1, content))
           /\ fetches' = [j \in 1..(Len(fetches) - 1) |->
                             IF j < k THEN fetches[j] ELSE fetches[j + 1]]
    /\ idCounter' = idCounter + 1
    /\ isGenerating' = FALSE
    /\ UNCHANGED chatRequests
    /\ UNCHANGED <<chunkVars, pipelineVars, searchVars, queryVars,
                   driverVars>>

\* C29: at most one chat request is in flight at any time, and isGenerating
\* is true exactly while a request is in flight
C29_OneRequestInFlight ==
    /\ Len(fetches) <= 1
    /\ isGenerating <=> Len(fetches) > 0

\* a response or an error has arrived in this step
Arrived == Len(fetches') < Len(fetches)

\* C30: when a response or an API error arrives, exactly one assistant
\* message is appended to the conversation as it is at that moment
C30_ArrivalAppendsToCurrent ==
    [][Arrived =>
          /\ Len(messages') = Len(messages) + 1
          /\ SubSeq(messages', 1, Len(messages)) = messages
          /\ messages'[Len(messages')].role = "assistant"]_vars

-----------------------------------------------------------------------------
(* Specifications *)

ChunkerOff ==
    /\ file = << <<>> >>
    /\ relativePath = <<>>
    /\ docs = <<>>
    /\ cpc = "off"
    /\ ci = 0
    /\ previousEndLine = 0
    /\ chunks = <<>>
    /\ located = <<>>
    /\ run = 1
    /\ firstRunIds = <<>>

PipelineOff ==
    /\ chunkedDir = <<>>
    /\ EmbedIdle
    /\ IngestIdle
    /\ SearchIdle
    /\ QueryIdle
    /\ DriverOff
    /\ PageOff

InitPipeline ==
    /\ chunkedDir \in ChunkedDirs
    /\ EmbedIdle
    /\ IngestIdle
    /\ ChunkerOff
    /\ SearchIdle
    /\ QueryIdle
    /\ DriverOff
    /\ PageOff

InitRetriever ==
    /\ ChunkerOff
    /\ chunkedDir = <<>>
    /\ EmbedIdle
    /\ IngestParked
    /\ store \in SearchStores
    /\ SearchIdle
    /\ QueryIdle
    /\ DriverOff
    /\ PageOff

NextRetriever ==
    \/ RouteSearch
    \/ CliSearch

NextEmbedder ==
    \/ EmbedStart
    \/ EmbedNextFile
    \/ EmbedCall
    \/ EmbedDelay
    \/ EmbedWrite

\* the chunk directories the writer is run on alone: files of one batch and
\* of more than one
WriterDirs ==
    {dir \in ChunkedDirs :
        \A f \in 1..Len(dir) :
            Len(dir[f].chunks) \in {2, EMBED_BATCH_SIZE + 1}}

InitWriter ==
    /\ chunkedDir \in WriterDirs
    /\ EmbedIdle
    /\ IngestIdle
    /\ ChunkerOff
    /\ SearchIdle
    /\ QueryIdle
    /\ DriverOff
    /\ PageOff

NextWriter ==
    \/ IngestStart
    \/ IngestBatch
    \/ IngestFinish

NextPipeline ==
    \/ EmbedStart
    \/ EmbedNextFile
    \/ EmbedCall
    \/ EmbedDelay
    \/ EmbedWrite
    \/ IngestStart
    \/ IngestBatch
    \/ IngestFinish

InitChunker ==
    /\ ChunkerReady
    /\ PipelineOff

SpecChunker == InitChunker /\ [][NextChunker]_vars

SpecPipeline == InitPipeline /\ [][NextPipeline]_vars

SpecEmbedder == InitPipeline /\ [][NextEmbedder]_vars

SpecWriter == InitWriter /\ [][NextWriter]_vars

SpecRetriever == InitRetriever /\ [][NextRetriever]_vars

\* a stored chunk with the columns the context and the citations read
ChatRow(k, v, title, slug, heading) ==
    [StoredRow(k, VectorOf(v)) EXCEPT
        !.row = [@ EXCEPT !.title = title, !.slug = slug,
                          !.heading = heading]]

\* the tables a question is answered from: empty, without embeddings, with
\* titles, slugs and headings present or absent, and larger than the limit
\* a chunk text longer than the excerpt of a citation
LongText == << [c \in 1..(ExcerptLength + 1) |-> "x"] >>

LongRow ==
    [StoredRow(0, VectorOf(<<1, 0>>)) EXCEPT
        !.row = [@ EXCEPT !.text = LongText,
                          !.characterCount = CharacterCount(LongText),
                          !.wordCount = WordCount(LongText)]]

ChatStores ==
    {<<>>,
     <<LongRow>>,
     <<StoredRow(0, NullVector)>>,
     <<ChatRow(0, <<1, 0>>, <<"T">>, <<"s">>, Introduction),
       ChatRow(1, <<-1, 0>>, Null, Null, Null)>>,
     <<ChatRow(0, <<0, 1>>, Null, <<"s">>, Introduction),
       ChatRow(1, <<1, 1>>, <<"T">>, Null, Null),
       StoredRow(2, NullVector)>>,
     LargeStore}

InitChat ==
    /\ ChunkerOff
    /\ chunkedDir = <<>>
    /\ EmbedIdle
    /\ IngestParked
    /\ store \in ChatStores
    /\ SearchIdle
    /\ QueryIdle
    /\ DriverOff
    /\ PageOff

NextChat ==
    \/ QueryReceive
    \/ ServiceSettles
    \/ AfterEmbedding
    \/ AfterSearch
    \/ AfterGeneration

SpecChat == InitChat /\ [][NextChat]_vars

\* the chunk directories embedded before questions are asked: one file, of
\* one batch or of more than one
ModeDirs == {dir \in WriterDirs : Len(dir) = 1}

InitModes ==
    /\ ChunkerOff
    /\ chunkedDir \in ModeDirs
    /\ EmbedIdle
    /\ IngestParked
    /\ store = LargeStore
    /\ SearchIdle
    /\ QueryIdle
    /\ DriverOff
    /\ PageOff

NextModes ==
    \/ EmbedStart
    \/ EmbedNextFile
    \/ EmbedCall
    \/ EmbedDelay
    \/ EmbedWrite
    \/ QueryReceive
    \/ ServiceSettles
    \/ AfterEmbedding
    \/ AfterSearch
    \/ AfterGeneration

SpecModes == InitModes /\ [][NextModes]_vars

\* the runtime resumes a handler whose awaited call has settled; nothing
\* obliges a service to settle, and nothing obliges a question to arrive
SpecChatFair ==
    /\ InitChat
    /\ [][NextChat]_vars
    /\ WF_vars(AfterEmbedding)
    /\ WF_vars(AfterSearch)
    /\ WF_vars(AfterGeneration)

InitDriver ==
    /\ ChunkerOff
    /\ chunkedDir = <<>>
    /\ EmbedIdle
    /\ IngestParked
    /\ store = <<>>
    /\ SearchIdle
    /\ QueryIdle
    /\ markdownFiles \in MarkdownDirs
    /\ mdI = 0
    /\ chunkStats = NoStats
    /\ outputDir = <<>>
    /\ PageOff

NextDriver ==
    \/ DocsFile
    \/ DocsSummary

SpecDriver == InitDriver /\ [][NextDriver]_vars

\* the chunk directories the ingest script is started on with arguments
CliDirs == {dir \in WriterDirs : Len(dir) = 1}

InitIngestCli ==
    /\ chunkedDir \in CliDirs
    /\ EmbedIdle
    /\ IngestIdle
    /\ ChunkerOff
    /\ SearchIdle
    /\ QueryIdle
    /\ DriverOff
    /\ PageOff

NextIngestCli ==
    \/ IngestMain
    \/ IngestBatch
    \/ IngestFinish

SpecIngestCli == InitIngestCli /\ [][NextIngestCli]_vars

InitPage ==
    /\ ChunkerOff
    /\ chunkedDir = <<>>
    /\ EmbedIdle
    /\ IngestIdle
    /\ SearchIdle
    /\ QueryIdle
    /\ DriverOff
    /\ messages \in SavedConversations
    /\ isGenerating = FALSE
    /\ fetches = <<>>
    /\ idCounter = Len(messages)
    /\ chatRequests = 0

NextPage ==
    \/ handleSendMessage
    \/ handleRegenerate
    \/ handlePin
    \/ handleRestart
    \/ FetchSettles

SpecPage == InitPage /\ [][NextPage]_vars

====
